---- MODULE Spec2Model ----
(***************************************************************************)
(* Verification model of the vendored zlib primitives of Luna-cpp:         *)
(*   - the checksum engine         (src/include/zlib/crc32.cpp)            *)
(*   - the bit writer, the tree builder and the block strategy             *)
(*                                 (src/include/zlib/trees.cpp)            *)
(*                                                                         *)
(* Machine words are tuples of bytes, least-significant byte first, so a   *)
(* z_crc_t is a 4-tuple and a z_word_t a W-tuple: every shift, mask and    *)
(* exclusive-or keeps the width of its C type.                             *)
(***************************************************************************)
EXTENDS Integers, Sequences, FiniteSets, TLC

VARIABLES
    host,       \* crc32.cpp build/run-time facts: [W, little]
    crc,        \* the crc argument of the crc32() calls (the seed)
    buf,        \* the first buffer: [addr, mem]
    buf2,       \* the second buffer, which follows the first
    ret,        \* the values the checksum calls returned so far
    cpc,        \* position of the checksum driver
    s,          \* the deflate_state of trees.cpp
    pc,         \* position of the caller of trees.cpp
    arg,        \* arguments and locals of the call of trees.cpp under way
    sent        \* history: the send_bits calls made so far, <<value, length>>

crcvars == <<host, crc, buf, buf2, ret, cpc>>
trvars == <<s, pc, arg, sent>>
vars == <<host, crc, buf, buf2, ret, cpc, s, pc, arg, sent>>

(***************************************************************************)
(* Loops of the C code are recursive operators that carry the loop's state *)
(* as a parameter.  Each begins with the test DOMAIN x # DOMAIN x on that  *)
(* state, which is never true and has TLC compute the state of one turn    *)
(* before the next turn starts; a loop over a long range halves the range. *)
(***************************************************************************)

(***************************************************************************)
(* Fixed-width words: 4-byte (z_crc_t, 32-bit z_word_t) or 8-byte          *)
(* (64-bit z_word_t) tuples, least-significant byte first                  *)
(***************************************************************************)
RECURSIVE XorInt(_, _)
XorInt(a, b) ==
    IF a = 0 THEN b
    ELSE IF b = 0 THEN a
    ELSE ((a + b) % 2) + 2 * XorInt(a \div 2, b \div 2)

RECURSIVE AndInt(_, _)
AndInt(a, b) ==
    IF a = 0 \/ b = 0 THEN 0
    ELSE ((a % 2) * (b % 2)) + 2 * AndInt(a \div 2, b \div 2)

RECURSIVE OrInt(_, _)
OrInt(a, b) ==
    IF a = 0 THEN b
    ELSE IF b = 0 THEN a
    ELSE (IF a % 2 = 1 \/ b % 2 = 1 THEN 1 ELSE 0) + 2 * OrInt(a \div 2, b \div 2)

\* a ^ b on words of the same width
Xor(a, b) ==
    IF Len(a) = 4
    THEN <<XorInt(a[1], b[1]), XorInt(a[2], b[2]), XorInt(a[3], b[3]), XorInt(a[4], b[4])>>
    ELSE <<XorInt(a[1], b[1]), XorInt(a[2], b[2]), XorInt(a[3], b[3]), XorInt(a[4], b[4]),
           XorInt(a[5], b[5]), XorInt(a[6], b[6]), XorInt(a[7], b[7]), XorInt(a[8], b[8])>>

\* a 32-bit value zero-extended to a w-byte word, and a word cut to 32 bits
Widen(a, w) == IF w = 4 THEN a ELSE <<a[1], a[2], a[3], a[4], 0, 0, 0, 0>>
Narrow(a) == <<a[1], a[2], a[3], a[4]>>

\* a >> 8, a << 8 and a >> 1 on a word
Shr8(a) ==
    IF Len(a) = 4 THEN <<a[2], a[3], a[4], 0>>
    ELSE <<a[2], a[3], a[4], a[5], a[6], a[7], a[8], 0>>
Shl8(a) ==
    IF Len(a) = 4 THEN <<0, a[1], a[2], a[3]>>
    ELSE <<0, a[1], a[2], a[3], a[4], a[5], a[6], a[7]>>
Shr1(a) ==
    <<(a[1] \div 2) + 128 * (a[2] % 2), (a[2] \div 2) + 128 * (a[3] % 2),
      (a[3] \div 2) + 128 * (a[4] % 2), a[4] \div 2>>

\* (a >> (k << 3)) & 0xff
ByteOf(a, k) == a[k + 1]

\* bit m of a, and (a & ((1 << m) - 1)) == 0
BitOf(a, m) == (a[(m \div 8) + 1] \div (2 ^ (m % 8))) % 2
LowClear(a, m) ==
    /\ \A i \in 1..(m \div 8) : a[i] = 0
    /\ a[(m \div 8) + 1] % (2 ^ (m % 8)) = 0

Zero32 == <<0, 0, 0, 0>>
Ones32 == <<255, 255, 255, 255>>

(***************************************************************************)
(* crc32.cpp: GF(2) polynomial arithmetic                                  *)
(***************************************************************************)
\* #define N 5: the number of braids
N == 5

\* #define POLY 0xedb88320
POLY == <<32, 131, 184, 237>>

\* Returned by a loop of the C code that never exits.
NoReturn == <<>>

\* b = b & 1 ? (b >> 1) ^ POLY : b >> 1
shift_poly(b) == IF b[1] % 2 = 1 THEN Xor(Shr1(b), POLY) ELSE Shr1(b)

\* One turn of multmodp's for (;;) with m == 1 << mbit, on [b, p, done].
multmodp_turn(a, st, mbit) ==
    IF st.done THEN st
    ELSE IF BitOf(a, mbit) = 1
         THEN [b |-> shift_poly(st.b), p |-> Xor(st.p, st.b), done |-> LowClear(a, mbit)]
         ELSE [b |-> shift_poly(st.b), p |-> st.p, done |-> FALSE]

\* the turns with m from 1 << hi down to 1 << lo
RECURSIVE multmodp_loop(_, _, _, _)
multmodp_loop(a, st, hi, lo) ==
    IF DOMAIN st # DOMAIN st THEN st
    ELSE IF hi = lo THEN multmodp_turn(a, st, hi)
    ELSE multmodp_loop(a, multmodp_loop(a, st, hi, (hi + lo + 1) \div 2),
                       ((hi + lo + 1) \div 2) - 1, lo)

\* return p, which only happens once (a & (m - 1)) == 0 was seen
multmodp_ret(st) == IF st.done THEN st.p ELSE NoReturn

\* multmodp(a, b).  m runs from 1 << 31 down; once it has been shifted out no
\* test of the loop can succeed any more, and the loop spins for ever.
multmodp(a, b) ==
    multmodp_ret(multmodp_loop(a, [b |-> b, p |-> Zero32, done |-> FALSE], 31, 0))

\* x2n_table[n] == x^(2^n) mod p(x): p = 1 << 30; table[0] = p;
\* table[n] = p = multmodp(p, p)
RECURSIVE x2n_fill(_, _)
x2n_fill(t, n) ==
    IF DOMAIN t # DOMAIN t THEN t
    ELSE IF n > 31 THEN t
    ELSE x2n_fill(Append(t, multmodp(t[n], t[n])), n + 1)

x2n_table == x2n_fill(<< <<0, 0, 0, 64>> >>, 1)

\* x2nmodp_turn without n >>= 1
x2nmodp_turn_stay(xs) ==
    [n |-> xs.n, k |-> xs.k + 1,
     p |-> IF xs.n % 2 = 1 THEN multmodp(x2n_table[(xs.k % 32) + 1], xs.p) ELSE xs.p]

\* One turn of x2nmodp's while (n), on [n, k, p]:
\* if (n & 1) p = multmodp(x2n_table[k & 31], p); n >>= 1; k++
x2nmodp_turn(xs) ==
    [n |-> xs.n \div 2, k |-> xs.k + 1,
     p |-> IF xs.n % 2 = 1 THEN multmodp(x2n_table[(xs.k % 32) + 1], xs.p) ELSE xs.p]

\* x2nmodp's while (n); a multmodp that does not return stops it
RECURSIVE x2nmodp_loop(_, _, _)
x2nmodp_loop(n, k, p) ==
    IF DOMAIN p # DOMAIN p THEN p
    ELSE IF n = 0 \/ p = NoReturn THEN p
    ELSE x2nmodp_loop(x2nmodp_turn([n |-> n, k |-> k, p |-> p]).n,
                      x2nmodp_turn([n |-> n, k |-> k, p |-> p]).k,
                      x2nmodp_turn([n |-> n, k |-> k, p |-> p]).p)

\* x2nmodp(n, k); n is a z_off64_t, so n >>= 1 keeps the sign and the loop
\* never ends on a negative n.
x2nmodp(n, k) ==
    IF n < 0 THEN NoReturn ELSE x2nmodp_loop(n, k, <<0, 0, 0, 128>>)

(***************************************************************************)
(* crc32.cpp: the tables of crc32.hpp                                      *)
(***************************************************************************)
RECURSIVE crc_table_entry(_, _)
crc_table_entry(p, j) ==
    IF j = 0 THEN p ELSE crc_table_entry(shift_poly(p), j - 1)

\* crc_table[i], 0 <= i <= 255 (index i + 1 here)
crc_table == [i \in 1..256 |-> crc_table_entry(<<i - 1, 0, 0, 0>>, 8)]

\* byte_swap on a w-byte word
byte_swap(word) ==
    IF Len(word) = 4 THEN <<word[4], word[3], word[2], word[1]>>
    ELSE <<word[8], word[7], word[6], word[5], word[4], word[3], word[2], word[1]>>

\* crc_big_table[i] == byte_swap(crc_table[i]) on a z_word_t
crc_big_table(W, i) == byte_swap(Widen(crc_table[i + 1], W))

\* x^(8 * (N*W + 3 - k)) mod p(x) for each byte lane k of a word
braid_power(W) == [k \in 0..(W - 1) |-> x2nmodp((N * W + 3 - k) * 8, 0)]
braid_power4 == braid_power(4)
braid_power8 == braid_power(8)

\* crc_braid_table[k][i] == multmodp(i << 24, x^(8 * (N*W + 3 - k)))
crc_braid_table(W, k, i) ==
    IF i = 0 THEN Zero32
    ELSE multmodp(<<0, 0, 0, i>>, IF W = 8 THEN braid_power8[k] ELSE braid_power4[k])

\* crc_braid_big_table[W - 1 - k][i] == byte_swap(crc_braid_table[k][i])
crc_braid_big_table(W, k, i) == byte_swap(Widen(crc_braid_table(W, W - 1 - k, i), W))

(***************************************************************************)
(* crc32.cpp: crc32_z                                                      *)
(***************************************************************************)
\* A buffer pointer: [null, addr, mem], addr the address it holds and mem the
\* bytes found there; Z_NULL points at nothing.
Z_NULL == [null |-> TRUE, addr |-> 0, mem |-> <<>>]
Buffer(addr, mem) == [null |-> FALSE, addr |-> addr, mem |-> mem]

\* crc_byte with the running crc left out of the table index
crc_byte_noxor(c, b) == Xor(Shr8(c), crc_table[b + 1])

\* crc = (crc >> 8) ^ crc_table[(crc ^ *buf++) & 0xff]
crc_byte(c, b) == Xor(Shr8(c), crc_table[XorInt(c[1], b) + 1])

\* the byte-at-a-time loop over mem[lo..hi]
RECURSIVE crc_bytes(_, _, _, _)
crc_bytes(c, mem, lo, hi) ==
    IF DOMAIN c # DOMAIN c THEN c
    ELSE IF lo > hi THEN c
    ELSE IF lo = hi THEN crc_byte(c, mem[lo])
    ELSE crc_bytes(crc_bytes(c, mem, lo, (lo + hi) \div 2), mem, ((lo + hi) \div 2) + 1, hi)

\* k turns of data = (data >> 8) ^ crc_table[data & 0xff]
RECURSIVE crc_word_loop(_, _)
crc_word_loop(data, k) ==
    IF DOMAIN data # DOMAIN data THEN data
    ELSE IF k = 0 THEN data
    ELSE crc_word_loop(Xor(Shr8(data), Widen(crc_table[data[1] + 1], Len(data))), k - 1)

\* crc_word running one turn short
crc_word_short(data) == Narrow(crc_word_loop(data, Len(data) - 1))

\* crc_word: for (k = 0; k < W; k++), returning (z_crc_t)data
crc_word(data) == Narrow(crc_word_loop(data, Len(data)))

\* crc_word_big: W times
\* data = (data << 8) ^ crc_big_table[(data >> ((W-1) << 3)) & 0xff]
RECURSIVE crc_word_big_loop(_, _)
crc_word_big_loop(data, k) ==
    IF DOMAIN data # DOMAIN data THEN data
    ELSE IF k = 0 THEN data
    ELSE crc_word_big_loop(Xor(Shl8(data),
                               crc_big_table(Len(data), ByteOf(data, Len(data) - 1))), k - 1)

crc_word_big(data) == crc_word_big_loop(data, Len(data))

\* words[j] read through the z_word_t pointer at byte offset off of mem, as
\* the host's byte order has it
LoadBytes(mem, o, W) ==
    IF W = 4 THEN <<mem[o + 1], mem[o + 2], mem[o + 3], mem[o + 4]>>
    ELSE <<mem[o + 1], mem[o + 2], mem[o + 3], mem[o + 4],
           mem[o + 5], mem[o + 6], mem[o + 7], mem[o + 8]>>

LoadWord(mem, off, j, W, little) ==
    IF little THEN LoadBytes(mem, off + j * W, W)
    ELSE byte_swap(LoadBytes(mem, off + j * W, W))

\* for (k = 1; k < W; k++) crc ^= crc_braid_table[k][(word >> (k << 3)) & 0xff]
\* on a little-endian host, and the same through crc_braid_big_table on a
\* big-endian one
RECURSIVE braid_word(_, _, _, _, _)
braid_word(W, little, c, word, k) ==
    IF DOMAIN c # DOMAIN c THEN c
    ELSE IF k >= W THEN c
    ELSE braid_word(W, little,
                    Xor(c, IF little THEN crc_braid_table(W, k, ByteOf(word, k))
                                     ELSE crc_braid_big_table(W, k, ByteOf(word, k))),
                    word, k + 1)

\* One braid in one pass of while (--blks): word = crc ^ words[i];
\* crc = crc_braid_table[0][word & 0xff]; then the loop over k.  On a
\* big-endian host the braids are kept as byte-swapped z_word_t.
braid_lane(W, little, word) ==
    braid_word(W, little,
               IF little THEN crc_braid_table(W, 0, ByteOf(word, 0))
                         ELSE crc_braid_big_table(W, 0, ByteOf(word, 0)),
               word, 1)

\* the braids i..N of one pass, appended to those done
RECURSIVE braid_pass(_, _, _, _, _, _, _)
braid_pass(W, little, lanes, mem, off, done, i) ==
    IF DOMAIN done # DOMAIN done THEN done
    ELSE IF i > N THEN done
    ELSE braid_pass(W, little, lanes, mem, off,
                    Append(done, braid_lane(W, little,
                                            Xor(IF little THEN Widen(lanes[i], W) ELSE lanes[i],
                                                LoadWord(mem, off, i - 1, W, little)))),
                    i + 1)

\* while (--blks): blks - 1 passes, the words pointer moving N words a pass;
\* returns the braids with the offset of the last block appended
RECURSIVE braid_loop(_, _, _, _, _, _)
braid_loop(W, little, lanes, mem, off, blks) ==
    IF DOMAIN lanes # DOMAIN lanes THEN lanes
    ELSE IF blks - 1 = 0 THEN [lanes |-> lanes, off |-> off]
    ELSE braid_loop(W, little, braid_pass(W, little, lanes, mem, off, <<>>, 1),
                    mem, off + N * W, blks - 1)

\* The last block: crc = crc_word(crc0 ^ words[0]);
\* crc = crc_word(crc1 ^ words[1] ^ crc); ... for the braids i..N
RECURSIVE braid_last(_, _, _, _, _, _)
braid_last(W, lanes, mem, off, c, i) ==
    IF DOMAIN c # DOMAIN c THEN c
    ELSE IF i > N THEN c
    ELSE braid_last(W, lanes, mem, off,
                    crc_word(Xor(Xor(Widen(lanes[i], W), LoadWord(mem, off, i - 1, W, TRUE)),
                                 Widen(c, W))),
                    i + 1)

\* The same on a big-endian host: comb = crc_word_big(crc0 ^ words[0]);
\* comb = crc_word_big(crc1 ^ words[1] ^ comb); ...
RECURSIVE braid_last_big(_, _, _, _, _, _)
braid_last_big(W, lanes, mem, off, comb, i) ==
    IF DOMAIN comb # DOMAIN comb THEN comb
    ELSE IF i > N THEN comb
    ELSE braid_last_big(W, lanes, mem, off,
                        crc_word_big(Xor(Xor(lanes[i], LoadWord(mem, off, i - 1, W, FALSE)),
                                         comb)),
                        i + 1)

\* the block loop done: the last block, then [crc, pos, len] with pos the
\* number of bytes of the buffer consumed and len what is left of them
braid_finish(W, little, lp, mem, len) ==
    [crc |-> IF little
             THEN braid_last(W, lp.lanes, mem, lp.off, Zero32, 1)
             ELSE Narrow(byte_swap(braid_last_big(W, lp.lanes, mem, lp.off,
                                                  Widen(Zero32, W), 1))),
     pos |-> lp.off + N * W,
     len |-> len]

\* crc0 = crc (byte-swapped on a big-endian host), crc1 = ... = 0
braid_start(W, little, c) ==
    IF little THEN <<c, Zero32, Zero32, Zero32, Zero32>>
    ELSE <<byte_swap(Widen(c, W)), Widen(Zero32, W), Widen(Zero32, W),
           Widen(Zero32, W), Widen(Zero32, W)>>

\* the number of bytes taken to reach a z_word_t boundary:
\* while (len && ((z_size_t)buf & (W - 1)) != 0)
braid_align(W, b, len) ==
    IF len < (W - (b.addr % W)) % W THEN len ELSE (W - (b.addr % W)) % W

\* blks = len / (N * W); len -= blks * N * W; the blocks from offset off on
braid_blocks(W, little, c, mem, off, len) ==
    braid_finish(W, little,
                 braid_loop(W, little, braid_start(W, little, c), mem, off, len \div (N * W)),
                 mem, len % (N * W))

\* The braided part of crc32_z
crc32_braid(W, little, c, b, len) ==
    braid_blocks(W, little, crc_bytes(c, b.mem, 1, braid_align(W, b, len)), b.mem,
                 braid_align(W, b, len), len - braid_align(W, b, len))

\* crc32_tail returning crc with no post-conditioning
crc32_tail_raw(br, mem) ==
    crc_bytes(crc_bytes(br.crc, mem, br.pos + 1, br.pos + 8 * (br.len \div 8)),
              mem, br.pos + 8 * (br.len \div 8) + 1, br.pos + br.len)

\* the remaining bytes: while (len >= 8) eight at a time, then while (len),
\* and return crc ^ 0xffffffff
crc32_tail(br, mem) ==
    Xor(crc_bytes(crc_bytes(br.crc, mem, br.pos + 1, br.pos + 8 * (br.len \div 8)),
                  mem, br.pos + 8 * (br.len \div 8) + 1, br.pos + br.len),
        Ones32)

\* crc32_z returning crc when buf is Z_NULL
crc32_z_keep(W, little, c, b, len) ==
    IF b.null THEN c
    ELSE crc32_tail(IF W # 0 /\ len >= N * W + W - 1
                    THEN crc32_braid(W, little, Xor(c, Ones32), b, len)
                    ELSE [crc |-> Xor(c, Ones32), pos |-> 0, len |-> len],
                    b.mem)

\* crc32_z(crc, buf, len) as built with word size W (0: W undefined, no braided
\* code) and run on a little- or big-endian host
crc32_z(W, little, c, b, len) ==
    IF b.null THEN Zero32
    ELSE crc32_tail(IF W # 0 /\ len >= N * W + W - 1
                    THEN crc32_braid(W, little, Xor(c, Ones32), b, len)
                    ELSE [crc |-> Xor(c, Ones32), pos |-> 0, len |-> len],
                    b.mem)

\* multmodp(op, crc1) ^ crc2, when the calls return
combine_xor(m, crc2) == IF m = NoReturn THEN NoReturn ELSE Xor(m, crc2)
combine_mul(x, crc1, crc2) ==
    IF x = NoReturn THEN NoReturn ELSE combine_xor(multmodp(x, crc1), crc2)

\* crc32_combine64 taking len2 for a number of bits: x2nmodp(len2, 0)
crc32_combine64_bits(crc1, crc2, len2) == combine_mul(x2nmodp(len2, 0), crc1, crc2)

\* crc32_combine64 / crc32_combine_gen64 / crc32_combine_op
crc32_combine64(crc1, crc2, len2) == combine_mul(x2nmodp(len2, 3), crc1, crc2)

crc32_combine_gen64(len2) == x2nmodp(len2, 3)

crc32_combine_op(crc1, crc2, op) == combine_xor(multmodp(op, crc1), crc2)

(***************************************************************************)
(* The checksum engine driven on bounded inputs                            *)
(***************************************************************************)
\* Bounds of the inputs
MaxShort == 2          \* short buffers hold up to MaxShort bytes
MaxBlks == 2           \* long buffers hold up to MaxBlks blocks of N words
MaxTail == 0           \* ... and up to MaxTail bytes more

Unset == <<-1>>

CheckMsg == <<49, 50, 51, 52, 53, 54, 55, 56, 57>>       \* "123456789"
CheckCrc == <<38, 57, 244, 203>>                         \* 0xCBF43926

ByteChoice == {49, 255}
Hosts == {[W |-> w, little |-> l] : w \in {4, 8}, l \in BOOLEAN}
Seeds == {Zero32, CheckCrc}

ShortData == UNION {[1..n -> ByteChoice] : n \in 0..MaxShort} \cup {CheckMsg}

\* a long buffer: n bytes that run through all byte values
Pattern(n) == [i \in 1..n |-> (i * 37 + 11) % 256]

\* the lengths around the braid threshold N*W + W-1, and those of whole blocks
BraidLens(W) ==
    ((N * W + W - 2)..(N * W + W)) \cup
    {b * N * W + W + d : b \in 1..MaxBlks, d \in 0..MaxTail}

CrcInit ==
    /\ host \in Hosts
    /\ crc \in Seeds
    /\ \/ /\ buf \in {Buffer(0, a) : a \in ShortData}
          /\ buf2 \in ShortData
       \/ /\ buf \in {Buffer(a, Pattern(n)) : a \in 0..(host.W - 1), n \in BraidLens(host.W)}
          /\ buf2 \in {<<>>, <<49>>}
    /\ ret = [a |-> Unset, b |-> Unset, ab |-> Unset, comb |-> Unset,
              null |-> Unset, len |-> 0, seeded |-> Unset, chain |-> Unset,
              cb |-> Unset, chainba |-> Unset, ba |-> Unset]
    /\ cpc = "a"
    /\ s = <<>> /\ pc = "none" /\ arg = <<>> /\ sent = <<>>

\* crc32(crc, a, len(a))
CallCrcA ==
    /\ cpc = "a"
    /\ ret' = [ret EXCEPT !.a = crc32_z(host.W, host.little, crc, buf, Len(buf.mem))]
    /\ cpc' = "b"
    /\ UNCHANGED <<host, crc, buf, buf2, trvars>>

\* crc32(0, b, len(b)), b lying right after a
CallCrcB ==
    /\ cpc = "b"
    /\ ret' = [ret EXCEPT !.b = crc32_z(host.W, host.little, Zero32,
                                        Buffer(buf.addr + Len(buf.mem), buf2), Len(buf2))]
    /\ cpc' = "ab"
    /\ UNCHANGED <<host, crc, buf, buf2, trvars>>

\* crc32(crc, a ++ b, len(a) + len(b))
CallCrcAB ==
    /\ cpc = "ab"
    /\ ret' = [ret EXCEPT !.ab = crc32_z(host.W, host.little, crc,
                                         Buffer(buf.addr, buf.mem \o buf2),
                                         Len(buf.mem) + Len(buf2))]
    /\ cpc' = "comb"
    /\ UNCHANGED <<host, crc, buf, buf2, trvars>>

\* crc32_combine(crc32(a), crc32(b), len(b))
CallCombine ==
    /\ cpc = "comb"
    /\ ret' = [ret EXCEPT !.comb = crc32_combine64(ret.a, ret.b, Len(buf2))]
    /\ cpc' = "chain"
    /\ UNCHANGED <<host, crc, buf, buf2, trvars>>

\* crc32(crc32(crc, a, len(a)), b, len(b)), b lying right after a
CallCrcChain ==
    /\ cpc = "chain"
    /\ ret' = [ret EXCEPT !.chain = crc32_z(host.W, host.little, ret.a,
                                            Buffer(buf.addr + Len(buf.mem), buf2),
                                            Len(buf2))]
    /\ cpc' = "cb"
    /\ UNCHANGED <<host, crc, buf, buf2, trvars>>

\* crc32(crc, b, len(b)), b lying where a began
CallCrcCB ==
    /\ cpc = "cb"
    /\ ret' = [ret EXCEPT !.cb = crc32_z(host.W, host.little, crc,
                                         Buffer(buf.addr, buf2), Len(buf2))]
    /\ cpc' = "chainba"
    /\ UNCHANGED <<host, crc, buf, buf2, trvars>>

\* crc32(crc32(crc, b, len(b)), a, len(a)), a lying right after b
CallCrcChainBA ==
    /\ cpc = "chainba"
    /\ ret' = [ret EXCEPT !.chainba = crc32_z(host.W, host.little, ret.cb,
                                              Buffer(buf.addr + Len(buf2), buf.mem),
                                              Len(buf.mem))]
    /\ cpc' = "ba"
    /\ UNCHANGED <<host, crc, buf, buf2, trvars>>

\* crc32(crc, b ++ a, len(b) + len(a))
CallCrcBA ==
    /\ cpc = "ba"
    /\ ret' = [ret EXCEPT !.ba = crc32_z(host.W, host.little, crc,
                                         Buffer(buf.addr, buf2 \o buf.mem),
                                         Len(buf2) + Len(buf.mem))]
    /\ cpc' = "null"
    /\ UNCHANGED <<host, crc, buf, buf2, trvars>>

\* the lengths passed along with a null pointer
NullLens == {0, 1, Len(buf.mem)}

\* crc32(crc, Z_NULL, len)
CallCrcNull ==
    /\ cpc = "null"
    /\ \E len \in NullLens :
          ret' = [ret EXCEPT !.null = crc32_z(host.W, host.little, crc, Z_NULL, len),
                             !.len = len]
    /\ cpc' = "seeded"
    /\ UNCHANGED <<host, crc, buf, buf2, trvars>>

\* crc32(crc32(crc, Z_NULL, len), a, len(a))
CallCrcSeeded ==
    /\ cpc = "seeded"
    /\ ret' = [ret EXCEPT !.seeded = crc32_z(host.W, host.little, ret.null, buf,
                                             Len(buf.mem))]
    /\ cpc' = "done"
    /\ UNCHANGED <<host, crc, buf, buf2, trvars>>

CrcNext ==
    \/ CallCrcA \/ CallCrcB \/ CallCrcAB \/ CallCombine
    \/ CallCrcChain \/ CallCrcCB \/ CallCrcChainBA \/ CallCrcBA
    \/ CallCrcNull \/ CallCrcSeeded

SpecCrc == CrcInit /\ [][CrcNext]_vars

(***************************************************************************)
(* Properties of the checksum engine                                       *)
(***************************************************************************)
\* The reference CRC-32, one bit at a time, polynomial 0xEDB88320 reflected.
crc_ref_bit(c) == IF c[1] % 2 = 1 THEN Xor(Shr1(c), POLY) ELSE Shr1(c)
RECURSIVE crc_ref_bits(_, _)
crc_ref_bits(c, k) == IF k = 0 THEN c ELSE crc_ref_bits(crc_ref_bit(c), k - 1)
crc_ref_byte(c, b) == crc_ref_bits(Xor(c, <<b, 0, 0, 0>>), 8)
RECURSIVE crc_ref_bytes(_, _, _, _)
crc_ref_bytes(c, mem, lo, hi) ==
    IF DOMAIN c # DOMAIN c THEN c
    ELSE IF lo > hi THEN c
    ELSE IF lo = hi THEN crc_ref_byte(c, mem[lo])
    ELSE crc_ref_bytes(crc_ref_bytes(c, mem, lo, (lo + hi) \div 2), mem,
                       ((lo + hi) \div 2) + 1, hi)
crc_ref(c, mem) == Xor(crc_ref_bytes(Xor(c, Ones32), mem, 1, Len(mem)), Ones32)

\* The plain table loop, a byte at a time, over the whole buffer.
crc_plain(c, mem) == Xor(crc_bytes(Xor(c, Ones32), mem, 1, Len(mem)), Ones32)

BraidThreshold == N * host.W + host.W - 1

\* C4: combination law: crc32_combine(crc32(0,a), crc32(0,b), len(b)) is
\* crc32(0, a++b), for all a and b, the empty ones included.
C4_CombinationLaw ==
    (cpc = "chain" /\ crc = Zero32) => ret.comb = ret.ab

C4_Witness ==
    /\ cpc = "chain" /\ crc = Zero32
    /\ Len(buf.mem) > 0 /\ Len(buf2) > 0
    /\ ret.comb = ret.ab /\ ret.comb # ret.b /\ ret.comb # ret.a

\* C5: crc32(0, s) is the reference CRC-32 of s computed bit by bit; it is 0
\* on the empty input and 0xCBF43926 on "123456789".
C5_MatchesReference ==
    (cpc = "b" /\ crc = Zero32) =>
        /\ ret.a = crc_ref(Zero32, buf.mem)
        /\ buf.mem = <<>> => ret.a = Zero32
        /\ buf.mem = CheckMsg => ret.a = CheckCrc

C5_Witness ==
    /\ cpc = "b" /\ crc = Zero32
    /\ buf.mem = CheckMsg
    /\ ret.a = CheckCrc

\* C6: whatever the initial crc, the alignment of the buffer and the
\* length (one below the braid threshold, at it, and above), crc32_z returns
\* what the plain byte-at-a-time table loop returns on the same input (seen as
\* each call returns).
C6_BraidEqualsPlain ==
    /\ cpc = "b" => ret.a = crc_plain(crc, buf.mem)
    /\ cpc = "comb" => ret.ab = crc_plain(crc, buf.mem \o buf2)

\* braided with a misaligned buffer, at least two blocks and a tail
C6_Witness ==
    /\ cpc = "b"
    /\ buf.addr % host.W # 0
    /\ Len(buf.mem) - ((host.W - buf.addr) % host.W) > 2 * N * host.W
    /\ ret.a = crc_plain(crc, buf.mem)

(***************************************************************************)
(* The checksum engine: the null pointer and running checksums             *)
(***************************************************************************)
AfterChain == cpc \in {"cb", "chainba", "ba", "null", "seeded", "done"}
AfterBA == cpc \in {"null", "seeded", "done"}
AfterNull == cpc \in {"seeded", "done"}
AfterSeeded == cpc = "done"

\* C15: crc32_z with buf == Z_NULL returns 0 for every crc and every len (a
\* null buffer holds no byte to read, with len > 0 as well), and that value
\* is a seed: crc32(crc32(x, Z_NULL, n), s) is crc32(0, s).
C15_NullReturnsSeed ==
    /\ AfterNull => ret.null = Zero32
    /\ AfterSeeded =>
          ret.seeded = crc32_z(host.W, host.little, Zero32, buf, Len(buf.mem))

\* a non-zero crc and a non-zero len passed along with the null pointer, then
\* a buffer whose checksum depends on the seed
C15_Witness ==
    /\ AfterSeeded
    /\ crc # Zero32 /\ ret.len > 0
    /\ ret.null = Zero32
    /\ ret.seeded = crc_ref(Zero32, buf.mem)
    /\ ret.seeded # ret.a

\* C20: for every initial value c and all a and b, crc32(crc32(c, a), b) is
\* crc32(c, a ++ b): a checksum taken over successive pieces of the input is
\* the checksum of the whole input.
C20_RunningCrc ==
    /\ AfterChain => ret.chain = ret.ab
    /\ AfterBA => ret.chainba = ret.ba

\* a non-zero initial value, a long piece taken by the braided code and a
\* short one, in both orders
C20_Witness ==
    /\ cpc = "null"
    /\ crc # Zero32
    /\ Len(buf.mem) > BraidThreshold /\ Len(buf2) > 0
    /\ ret.chain = ret.ab /\ ret.chainba = ret.ba
    /\ ret.ab # ret.ba /\ ret.chain # ret.b

(***************************************************************************)
(* deflate.hpp, trees.cpp: constants and the deflate_state                 *)
(***************************************************************************)
LENGTH_CODES == 29
LITERALS == 256
L_CODES == LITERALS + 1 + LENGTH_CODES
D_CODES == 30
BL_CODES == 19
HEAP_SIZE == 2 * L_CODES + 1
MAX_BITS == 15
Buf_size == 16
MAX_BL_BITS == 7
END_BLOCK == 256
REP_3_6 == 16
REPZ_3_10 == 17
REPZ_11_138 == 18
SMALLEST == 1

\* zutil.hpp, zlib.hpp
STORED_BLOCK == 0
STATIC_TREES == 1
DYN_TREES == 2
MIN_MATCH == 3
MAX_MATCH == 258
Z_BINARY == 0
Z_TEXT == 1
Z_UNKNOWN == 2
Z_FIXED == 4

\* n copies of v
RECURSIVE Fill(_, _)
Fill(n, v) ==
    IF n <= 0 THEN <<>>
    ELSE IF n = 1 THEN <<v>>
    ELSE Fill(n \div 2, v) \o Fill(n - (n \div 2), v)

\* a[i] = v on an array kept as a sequence (a[i] is the element i + 1); a
\* buffer that is written one past what it holds so far grows
PutAt(a, i, v) == IF i < Len(a) THEN [a EXCEPT ![i + 1] = v] ELSE Append(a, v)

\* An array of n ct_data: the unions fc (Freq, Code) and dl (Dad, Len), one
\* sequence for each; what is written as Freq is read back as Code.
ct_array(n, junk) == [fc |-> Fill(n, junk), dl |-> Fill(n, junk)]

\* The deflate_state as the allocator hands it over: the fields trees.cpp
\* uses, with junk where nothing was stored yet.
deflate_state(junk, level, strategy, sym_end) ==
    [strm_data_type |-> Z_UNKNOWN,
     pending_buf |-> <<>>, pending |-> 0,
     level |-> level, strategy |-> strategy,
     dyn_ltree |-> ct_array(HEAP_SIZE, junk),
     dyn_dtree |-> ct_array(2 * D_CODES + 1, junk),
     bl_tree |-> ct_array(2 * BL_CODES + 1, junk),
     l_desc |-> [max_code |-> junk],
     d_desc |-> [max_code |-> junk],
     bl_desc |-> [max_code |-> junk],
     bl_count |-> Fill(MAX_BITS + 1, junk),
     heap |-> Fill(2 * L_CODES + 1, junk),
     heap_len |-> junk, heap_max |-> junk,
     depth |-> Fill(2 * L_CODES + 1, junk),
     sym_buf |-> <<>>, sym_next |-> junk, sym_end |-> sym_end,
     opt_len |-> junk, static_len |-> junk, matches |-> junk,
     bi_buf |-> junk, bi_valid |-> junk]

(***************************************************************************)
(* trees.cpp: the bit writer                                               *)
(***************************************************************************)
\* (ush)(v << k) for a ush v: the bits shifted past bit 15 are lost
Shl16(v, k) == (v % (2 ^ (16 - k))) * (2 ^ k)

\* put_byte(s, c): s->pending_buf[s->pending++] = (Bytef)(c)
put_byte(st, c) ==
    [st EXCEPT !.pending_buf = PutAt(@, st.pending, c % 256), !.pending = @ + 1]

\* put_short(s, w): the low byte, then the high byte
put_short(st, w) == put_byte(put_byte(st, w % 256), (w % 65536) \div 256)

\* send_bits_split losing the bits that did not fit
send_bits_split_lost(st, val, len, filled) ==
    [put_short(st, filled) EXCEPT !.bi_buf = 0, !.bi_valid = st.bi_valid + len - Buf_size]

\* send_bits when the value does not fit in what is left of bi_buf: bi_buf is
\* filled up and put, and takes the rest of the value
send_bits_split(st, val, len, filled) ==
    [put_short(st, filled) EXCEPT
        !.bi_buf = (val % 65536) \div (2 ^ (Buf_size - st.bi_valid)),
        !.bi_valid = st.bi_valid + len - Buf_size]

\* send_bits(s, value, length)
send_bits(st, value, length) ==
    IF st.bi_valid > Buf_size - length
    THEN send_bits_split(st, value, length,
                         OrInt(st.bi_buf, Shl16(value % 65536, st.bi_valid)))
    ELSE [st EXCEPT !.bi_buf = OrInt(@, Shl16(value % 65536, st.bi_valid)),
                    !.bi_valid = @ + length]

\* send_code(s, c, tree): send_bits(s, tree[c].Code, tree[c].Len)
send_code(st, c, tree) == send_bits(st, tree.fc[c + 1], tree.dl[c + 1])

\* bi_flush that puts the low byte and leaves it in bi_buf
bi_flush_keep(st) ==
    IF st.bi_valid = 16
    THEN [put_short(st, st.bi_buf) EXCEPT !.bi_buf = 0, !.bi_valid = 0]
    ELSE IF st.bi_valid >= 8
    THEN [put_byte(st, st.bi_buf) EXCEPT !.bi_valid = st.bi_valid - 8]
    ELSE st

\* bi_flush
bi_flush(st) ==
    IF st.bi_valid = 16
    THEN [put_short(st, st.bi_buf) EXCEPT !.bi_buf = 0, !.bi_valid = 0]
    ELSE IF st.bi_valid >= 8
    THEN [put_byte(st, st.bi_buf) EXCEPT !.bi_buf = st.bi_buf \div 256,
                                         !.bi_valid = st.bi_valid - 8]
    ELSE st

\* bi_windup that writes nothing when a byte or less is pending
bi_windup_short(st) ==
    [(IF st.bi_valid > 8 THEN put_short(st, st.bi_buf) ELSE st)
        EXCEPT !.bi_buf = 0, !.bi_valid = 0]

\* bi_windup
bi_windup(st) ==
    [(IF st.bi_valid > 8 THEN put_short(st, st.bi_buf)
      ELSE IF st.bi_valid > 0 THEN put_byte(st, st.bi_buf)
      ELSE st)
        EXCEPT !.bi_buf = 0, !.bi_valid = 0]

\* init_block that leaves the bit-length tree as it is
init_block_lit(st) ==
    [st EXCEPT
        !.dyn_ltree.fc = [Fill(L_CODES, 0) \o SubSeq(@, L_CODES + 1, Len(@))
                            EXCEPT ![END_BLOCK + 1] = 1],
        !.dyn_dtree.fc = Fill(D_CODES, 0) \o SubSeq(@, D_CODES + 1, Len(@)),
        !.opt_len = 0, !.static_len = 0,
        !.sym_next = 0, !.matches = 0]

\* init_block: Freq = 0 for the symbols of the three alphabets, the nodes
\* above them and the dl halves left as they are
init_block(st) ==
    [st EXCEPT
        !.dyn_ltree.fc = [Fill(L_CODES, 0) \o SubSeq(@, L_CODES + 1, Len(@))
                            EXCEPT ![END_BLOCK + 1] = 1],
        !.dyn_dtree.fc = Fill(D_CODES, 0) \o SubSeq(@, D_CODES + 1, Len(@)),
        !.bl_tree.fc = Fill(BL_CODES, 0) \o SubSeq(@, BL_CODES + 1, Len(@)),
        !.opt_len = 0, !.static_len = 0,
        !.sym_next = 0, !.matches = 0]

\* _tr_init: the descriptors point at the trees of s and at the static
\* descriptors (they do so by construction here), then
_tr_init(st) == init_block([st EXCEPT !.bi_buf = 0, !.bi_valid = 0])

(***************************************************************************)
(* The bit writer driven on bounded inputs                                 *)
(***************************************************************************)
MaxSends == 3          \* send_bits calls in one run

BitValues == {1, 43, 32769, 65535}
BitLengths == {1, 7, 9, 16}

\* the checksum engine stays out of the runs of trees.cpp
CrcIdle ==
    /\ host = [W |-> 0, little |-> TRUE]
    /\ crc = Zero32 /\ buf = Z_NULL /\ buf2 = <<>> /\ ret = <<>> /\ cpc = "none"

BitsInit ==
    /\ CrcIdle
    /\ s = _tr_init(deflate_state(0, 6, 0, 0))
    /\ pc = "bits"
    /\ arg = <<>>
    /\ sent = <<>>

\* send_bits(s, value, length) with any 16-bit value
SendBits ==
    /\ pc = "bits"
    /\ Len(sent) < MaxSends
    /\ \E value \in BitValues, length \in BitLengths :
          /\ s' = send_bits(s, value, length)
          /\ sent' = Append(sent, <<value, length>>)
    /\ UNCHANGED <<pc, arg, crcvars>>

\* send_bits(s, value, length) as trees.cpp calls it: value fits in length bits
SendBitsFit ==
    /\ pc = "bits"
    /\ Len(sent) < MaxSends
    /\ \E value \in BitValues, length \in BitLengths :
          /\ value < 2 ^ length
          /\ s' = send_bits(s, value, length)
          /\ sent' = Append(sent, <<value, length>>)
    /\ UNCHANGED <<pc, arg, crcvars>>

\* _tr_flush_bits(s)
BiFlush ==
    /\ pc = "bits"
    /\ s' = bi_flush(s)
    /\ UNCHANGED <<pc, arg, sent, crcvars>>

\* bi_windup(s); arg keeps what the call found
BiWindup ==
    /\ pc = "bits"
    /\ arg' = [bi_buf |-> s.bi_buf, bi_valid |-> s.bi_valid,
               pending_buf |-> s.pending_buf, pending |-> s.pending,
               sym_buf |-> s.sym_buf, sym_next |-> s.sym_next]
    /\ s' = bi_windup(s)
    /\ pc' = "wound"
    /\ UNCHANGED <<sent, crcvars>>

BitsNext == SendBits \/ BiFlush \/ BiWindup
SpecBits == BitsInit /\ [][BitsNext]_vars

BitsFitNext == SendBitsFit \/ BiFlush \/ BiWindup
SpecBitsFit == BitsInit /\ [][BitsFitNext]_vars

(***************************************************************************)
(* Properties of the bit writer                                            *)
(***************************************************************************)
\* the n low bits of v, least-significant first
RECURSIVE BitsOf(_, _)
BitsOf(v, n) == IF n = 0 THEN <<>> ELSE <<v % 2>> \o BitsOf(v \div 2, n - 1)

\* the bits of the bytes b[1..n], each byte least-significant bit first
RECURSIVE BytesBits(_, _)
BytesBits(b, n) == IF n = 0 THEN <<>> ELSE BytesBits(b, n - 1) \o BitsOf(b[n], 8)

\* the bit stream written so far: the bytes put, then what is valid of bi_buf
Stream(st) == BytesBits(st.pending_buf, st.pending) \o BitsOf(st.bi_buf, st.bi_valid)

\* the `length` low bits of each value sent, in call order
RECURSIVE SentBits(_, _)
SentBits(log, n) ==
    IF n = 0 THEN <<>> ELSE SentBits(log, n - 1) \o BitsOf(log[n][1], log[n][2])

AllFit(log) == \A i \in 1..Len(log) : log[i][1] < 2 ^ log[i][2]

\* C7 (as amended): for any sequence of send_bits(value, length) calls with
\* 1 <= length <= 16 and value < 2^length, the bytes put (least-significant
\* bit first) followed by the bi_valid low bits of bi_buf are the
\* concatenation of the `length` low bits of the values, in call order.
C7_StreamIsConcatenation ==
    (pc = "bits" /\ AllFit(sent)) => Stream(s) = SentBits(sent, Len(sent))

\* fitting values, of which one was split over two puts of bi_buf
C7_Witness ==
    /\ pc = "bits" /\ AllFit(sent) /\ Len(sent) = MaxSends
    /\ s.pending >= 2 /\ s.bi_valid \in 1..15
    /\ sent[2][2] = 9 /\ sent[3][2] = 9
    /\ Stream(s) = SentBits(sent, Len(sent))

\* C7 as claimed: the same for any 16-bit value, the bits of value above
\* `length` never reaching the output.
C7_AnyValue ==
    pc = "bits" => Stream(s) = SentBits(sent, Len(sent))

\* C8: bi_windup called with v pending bits, 0 <= v <= 16, appends
\* ceil(v/8) bytes, which hold the v pending bits in order and then zero bits
\* only; it leaves the symbol buffer alone and bi_buf = 0, bi_valid = 0.
C8_Windup ==
    pc = "wound" =>
        /\ arg.bi_valid \in 0..16
        /\ s.pending = arg.pending + ((arg.bi_valid + 7) \div 8)
        /\ Stream(s) = BytesBits(arg.pending_buf, arg.pending)
                         \o BitsOf(arg.bi_buf, arg.bi_valid)
                         \o Fill(8 * ((arg.bi_valid + 7) \div 8) - arg.bi_valid, 0)
        /\ s.sym_buf = arg.sym_buf /\ s.sym_next = arg.sym_next
        /\ s.bi_buf = 0 /\ s.bi_valid = 0

\* bits pending in both bytes of bi_buf
C8_Witness ==
    /\ pc = "wound"
    /\ arg.bi_valid = 10 /\ arg.bi_buf >= 256
    /\ s.pending = arg.pending + 2
    /\ s.bi_buf = 0 /\ s.bi_valid = 0

(***************************************************************************)
(* trees.cpp: the code generator and the static trees                      *)
(***************************************************************************)
extra_lbits == <<0, 0, 0, 0, 0, 0, 0, 0, 1, 1, 1, 1, 2, 2, 2, 2, 3, 3, 3, 3,
                 4, 4, 4, 4, 5, 5, 5, 5, 0>>
extra_dbits == <<0, 0, 0, 0, 1, 1, 2, 2, 3, 3, 4, 4, 5, 5, 6, 6, 7, 7, 8, 8,
                 9, 9, 10, 10, 11, 11, 12, 12, 13, 13>>
extra_blbits == <<0, 0, 0, 0, 0, 0, 0, 0, 0, 0, 0, 0, 0, 0, 0, 0, 2, 3, 7>>
bl_order == <<16, 17, 18, 0, 8, 7, 9, 6, 10, 5, 11, 4, 12, 3, 13, 2, 14, 1, 15>>

\* bi_reverse's do ... while (--len > 0)
RECURSIVE bi_reverse_loop(_, _, _)
bi_reverse_loop(code, len, res) ==
    IF len - 1 > 0
    THEN bi_reverse_loop(code \div 2, len - 1, 2 * OrInt(res, code % 2))
    ELSE 2 * OrInt(res, code % 2)

\* bi_reverse that returns the code as it is
bi_reverse_not(code, len) == code

\* bi_reverse(code, len): return res >> 1
bi_reverse(code, len) == bi_reverse_loop(code, len, 0) \div 2

\* gen_codes, first loop: code = (code + bl_count[bits - 1]) << 1;
\* next_code[bits] = (ush)code.  next_code[0] is not set.
RECURSIVE gen_codes_first(_, _, _, _)
gen_codes_first(bl_count, next_code, code, bits) ==
    IF bits > MAX_BITS THEN next_code
    ELSE gen_codes_first(bl_count,
                         Append(next_code, (2 * (code + bl_count[bits])) % 65536),
                         2 * (code + bl_count[bits]), bits + 1)

\* gen_codes_turn that does not step next_code[len]
gen_codes_turn_same(st, dl, n) ==
    IF dl[n + 1] = 0 THEN st
    ELSE [fc |-> [st.fc EXCEPT ![n + 1] =
                      bi_reverse(st.next_code[dl[n + 1] + 1], dl[n + 1]) % 65536],
          next_code |-> st.next_code]

\* gen_codes, one turn of the second loop, on [fc, next_code]:
\* tree[n].Code = (ush)bi_reverse(next_code[len]++, len)
gen_codes_turn(st, dl, n) ==
    IF dl[n + 1] = 0 THEN st
    ELSE [fc |-> [st.fc EXCEPT ![n + 1] =
                      bi_reverse(st.next_code[dl[n + 1] + 1], dl[n + 1]) % 65536],
          next_code |-> [st.next_code EXCEPT ![dl[n + 1] + 1] = (@ + 1) % 65536]]

RECURSIVE gen_codes_loop(_, _, _, _)
gen_codes_loop(st, dl, lo, hi) ==
    IF DOMAIN st # DOMAIN st THEN st
    ELSE IF lo > hi THEN st
    ELSE IF lo = hi THEN gen_codes_turn(st, dl, lo)
    ELSE gen_codes_loop(gen_codes_loop(st, dl, lo, (lo + hi) \div 2), dl,
                        ((lo + hi) \div 2) + 1, hi)

\* gen_codes(tree, max_code, bl_count): the tree with its codes
gen_codes(tree, max_code, bl_count) ==
    [tree EXCEPT !.fc =
        gen_codes_loop([fc |-> tree.fc,
                        next_code |-> gen_codes_first(bl_count, <<0>>, 0, 1)],
                       tree.dl, 0, max_code).fc]

\* trees.hpp as tr_static_init builds it: the lengths of the static literal
\* tree are 8 (0..143), 9 (144..255), 7 (256..279) and 8 (280..287), its codes
\* those of gen_codes; the static distance codes are the 5-bit numbers
\* reversed.
static_ltree ==
    gen_codes([fc |-> Fill(L_CODES + 2, 0),
               dl |-> Fill(144, 8) \o Fill(112, 9) \o Fill(24, 7) \o Fill(8, 8)],
              L_CODES + 1,
              <<0, 0, 0, 0, 0, 0, 0, 24, 152, 112, 0, 0, 0, 0, 0, 0>>)

RECURSIVE static_dcodes(_)
static_dcodes(n) == IF n = 0 THEN <<>> ELSE Append(static_dcodes(n - 1), bi_reverse(n - 1, 5))

static_dtree == [fc |-> static_dcodes(D_CODES), dl |-> Fill(D_CODES, 5)]

\* base_length[code] and _length_code[length - MIN_MATCH]: the lengths 3..258
\* laid out over the length codes by their extra bits, 258 having code 28,
\* whose base_length is left 0
RECURSIVE base_length_fill(_, _, _)
base_length_fill(t, length, code) ==
    IF code >= LENGTH_CODES - 1 THEN Append(t, 0)
    ELSE base_length_fill(Append(t, length), length + 2 ^ extra_lbits[code + 1], code + 1)

base_length == base_length_fill(<<>>, 0, 0)

RECURSIVE length_code_fill(_, _)
length_code_fill(t, code) ==
    IF code >= LENGTH_CODES - 1 THEN [t EXCEPT ![Len(t)] = code]
    ELSE length_code_fill(t \o Fill(2 ^ extra_lbits[code + 1], code), code + 1)

_length_code == length_code_fill(<<>>, 0)

\* base_dist[code] and _dist_code: the distances 0..32767 laid out over the
\* distance codes by their extra bits; from code 16 on _dist_code is indexed
\* by 256 + (dist >> 7)
RECURSIVE base_dist_fill(_, _, _)
base_dist_fill(t, dist, code) ==
    IF code >= D_CODES THEN t
    ELSE base_dist_fill(Append(t, dist), dist + 2 ^ extra_dbits[code + 1], code + 1)

base_dist == base_dist_fill(<<>>, 0, 0)

RECURSIVE dist_code_fill(_, _)
dist_code_fill(t, code) ==
    IF code >= D_CODES THEN t
    ELSE IF code < 16
    THEN dist_code_fill(t \o Fill(2 ^ extra_dbits[code + 1], code), code + 1)
    ELSE dist_code_fill((IF code = 16 THEN t \o <<0, 0>> ELSE t)
                            \o Fill(2 ^ (extra_dbits[code + 1] - 7), code), code + 1)

_dist_code == dist_code_fill(<<>>, 0)

\* d_code(dist)
d_code(dist) ==
    IF dist < 256 THEN _dist_code[dist + 1] ELSE _dist_code[256 + (dist \div 128) + 1]

\* a null ct_data pointer
NoTree == [fc |-> <<>>, dl |-> <<>>]

static_l_desc ==
    [static_tree |-> static_ltree, extra_bits |-> extra_lbits,
     extra_base |-> LITERALS + 1, elems |-> L_CODES, max_length |-> MAX_BITS]
static_d_desc ==
    [static_tree |-> static_dtree, extra_bits |-> extra_dbits,
     extra_base |-> 0, elems |-> D_CODES, max_length |-> MAX_BITS]
static_bl_desc ==
    [static_tree |-> NoTree, extra_bits |-> extra_blbits,
     extra_base |-> 0, elems |-> BL_CODES, max_length |-> MAX_BL_BITS]

\* The tree descriptors of s as _tr_init sets them: dyn_tree and desc name
\* the fields of s, max_code lives in s[desc].
l_desc == [dyn_tree |-> "dyn_ltree", desc |-> "l_desc", stat_desc |-> static_l_desc]
d_desc == [dyn_tree |-> "dyn_dtree", desc |-> "d_desc", stat_desc |-> static_d_desc]
bl_desc == [dyn_tree |-> "bl_tree", desc |-> "bl_desc", stat_desc |-> static_bl_desc]

(***************************************************************************)
(* trees.cpp: the tree builder.  Its operators work on bt = [s, max_code,  *)
(* node, overflow]: the deflate_state and the locals of build_tree and     *)
(* gen_bitlen.  opt_len and static_len (ulg) are kept as the integer       *)
(* nearest zero that equals them modulo 2^w, w the width of unsigned long, *)
(* so that ULONG_MAX reads -1.                                             *)
(***************************************************************************)
\* smaller(tree, n, m, depth)
smaller(fc, n, m, depth) ==
    \/ fc[n + 1] < fc[m + 1]
    \/ (fc[n + 1] = fc[m + 1] /\ depth[n + 1] <= depth[m + 1])

\* pq_son that never looks at the right son
pq_son_left(heap, fc, depth, heap_len, j) == j

\* the son to go down to: j, or j + 1 when it is the smaller one
pq_son(heap, fc, depth, heap_len, j) ==
    IF j < heap_len /\ smaller(fc, heap[j + 2], heap[j + 1], depth) THEN j + 1 ELSE j

\* pqdownheap's while (j <= s->heap_len), with j the son chosen; returns the
\* heap
RECURSIVE pq_sift(_, _, _, _, _, _, _)
pq_sift(heap, fc, depth, heap_len, v, k, j) ==
    IF j > heap_len THEN [heap EXCEPT ![k + 1] = v]
    ELSE IF smaller(fc, v, heap[pq_son(heap, fc, depth, heap_len, j) + 1], depth)
    THEN [heap EXCEPT ![k + 1] = v]
    ELSE pq_sift([heap EXCEPT ![k + 1] = heap[pq_son(heap, fc, depth, heap_len, j) + 1]],
                 fc, depth, heap_len, v,
                 pq_son(heap, fc, depth, heap_len, j),
                 2 * pq_son(heap, fc, depth, heap_len, j))

\* pqdownheap(s, tree, k)
pqdownheap(st, desc, k) ==
    [st EXCEPT !.heap = pq_sift(@, st[desc.dyn_tree].fc, st.depth, st.heap_len,
                                st.heap[k + 1], k, 2 * k)]

\* build_tree, the loop over the elements:
\* if (tree[n].Freq != 0) heap[++heap_len] = max_code = n, depth[n] = 0;
\* else tree[n].Len = 0
build_tree_scan_turn(bt, desc, n) ==
    IF bt.s[desc.dyn_tree].fc[n + 1] # 0
    THEN [bt EXCEPT !.s.heap_len = @ + 1,
                    !.s.heap[bt.s.heap_len + 2] = n,
                    !.s.depth[n + 1] = 0,
                    !.max_code = n]
    ELSE [bt EXCEPT !.s[desc.dyn_tree].dl[n + 1] = 0]

RECURSIVE build_tree_scan(_, _, _, _)
build_tree_scan(bt, desc, lo, hi) ==
    IF DOMAIN bt # DOMAIN bt THEN bt
    ELSE IF lo > hi THEN bt
    ELSE IF lo = hi THEN build_tree_scan_turn(bt, desc, lo)
    ELSE build_tree_scan(build_tree_scan(bt, desc, lo, (lo + hi) \div 2), desc,
                         ((lo + hi) \div 2) + 1, hi)

\* build_tree_force_node that always takes symbol 0 for the new leaf
build_tree_force_zero(bt, desc, node) ==
    [bt EXCEPT !.s.heap_len = @ + 1,
               !.s.heap[bt.s.heap_len + 2] = 0,
               !.max_code = IF bt.max_code < 2 THEN bt.max_code + 1 ELSE bt.max_code,
               !.s[desc.dyn_tree].fc[1] = 1,
               !.s.depth[1] = 0,
               !.s.opt_len = @ - 1,
               !.s.static_len = IF desc.stat_desc.static_tree # NoTree
                                THEN @ - desc.stat_desc.static_tree.dl[1]
                                ELSE @]

\* node = heap[++heap_len] = (max_code < 2 ? ++max_code : 0) and what follows
build_tree_force_node(bt, desc, node) ==
    [bt EXCEPT !.s.heap_len = @ + 1,
               !.s.heap[bt.s.heap_len + 2] = node,
               !.max_code = IF bt.max_code < 2 THEN bt.max_code + 1 ELSE bt.max_code,
               !.s[desc.dyn_tree].fc[node + 1] = 1,
               !.s.depth[node + 1] = 0,
               !.s.opt_len = @ - 1,
               !.s.static_len = IF desc.stat_desc.static_tree # NoTree
                                THEN @ - desc.stat_desc.static_tree.dl[node + 1]
                                ELSE @]

\* while (s->heap_len < 2)
RECURSIVE build_tree_force(_, _)
build_tree_force(bt, desc) ==
    IF bt.s.heap_len >= 2 THEN bt
    ELSE build_tree_force(
             build_tree_force_node(bt, desc,
                                   IF bt.max_code < 2 THEN bt.max_code + 1 ELSE 0),
             desc)

\* for (n = hi; n >= lo; n--) pqdownheap(s, tree, n)
RECURSIVE build_tree_heapify(_, _, _, _)
build_tree_heapify(st, desc, hi, lo) ==
    IF DOMAIN st # DOMAIN st THEN st
    ELSE IF hi < lo THEN st
    ELSE IF hi = lo THEN pqdownheap(st, desc, hi)
    ELSE build_tree_heapify(build_tree_heapify(st, desc, hi, ((hi + lo) \div 2) + 1),
                            desc, (hi + lo) \div 2, lo)

\* desc->max_code = max_code;
\* for (n = s->heap_len / 2; n >= 1; n--) pqdownheap(s, tree, n)
build_tree_close(bt, desc) ==
    [bt EXCEPT !.s = build_tree_heapify([bt.s EXCEPT ![desc.desc].max_code = bt.max_code],
                                        desc, bt.s.heap_len \div 2, 1)]

\* build_tree up to the heap: the elements with a frequency are collected,
\* two at least are forced, desc->max_code is set and the heap is ordered
build_tree_heap(st, desc) ==
    build_tree_close(
        build_tree_force(
            build_tree_scan([s |-> [st EXCEPT !.heap_len = 0, !.heap_max = HEAP_SIZE],
                             max_code |-> -1, node |-> desc.stat_desc.elems,
                             overflow |-> 0],
                            desc, 0, desc.stat_desc.elems - 1),
            desc),
        desc)

\* pqremove(s, tree, top), top being s->heap[SMALLEST] as the call finds it
pqremove(st, desc) ==
    pqdownheap([st EXCEPT !.heap[SMALLEST + 1] = st.heap[st.heap_len + 1],
                          !.heap_len = @ - 1],
               desc, SMALLEST)

\* The rest of one turn of build_tree's do ... while: n was removed, m is
\* the smallest left; both go to the sorted end of the heap and the new node
\* takes their place.
build_tree_join(st, desc, n, m, node) ==
    pqdownheap([st EXCEPT !.heap_max = @ - 2,
                          !.heap = [[[@ EXCEPT ![st.heap_max] = n]
                                        EXCEPT ![st.heap_max - 1] = m]
                                        EXCEPT ![SMALLEST + 1] = node],
                          ![desc.dyn_tree].fc[node + 1] =
                              (st[desc.dyn_tree].fc[n + 1] + st[desc.dyn_tree].fc[m + 1])
                                  % 65536,
                          !.depth[node + 1] =
                              ((IF st.depth[n + 1] >= st.depth[m + 1]
                                THEN st.depth[n + 1] ELSE st.depth[m + 1]) + 1) % 256,
                          ![desc.dyn_tree].dl = [[@ EXCEPT ![n + 1] = node]
                                                    EXCEPT ![m + 1] = node]],
               desc, SMALLEST)

build_tree_joined(st, desc, n, node) ==
    build_tree_join(st, desc, n, st.heap[SMALLEST + 1], node)

\* one turn of do { ... } while (s->heap_len >= 2)
build_tree_merge(bt, desc) ==
    [bt EXCEPT !.s = build_tree_joined(pqremove(bt.s, desc), desc,
                                       bt.s.heap[SMALLEST + 1], bt.node),
               !.node = @ + 1]

\* count turns of it
RECURSIVE build_tree_merges(_, _, _)
build_tree_merges(bt, desc, count) ==
    IF DOMAIN bt # DOMAIN bt THEN bt
    ELSE IF count <= 0 THEN bt
    ELSE IF count = 1 THEN build_tree_merge(bt, desc)
    ELSE build_tree_merges(build_tree_merges(bt, desc, count \div 2), desc,
                           count - (count \div 2))

\* s->heap[--(s->heap_max)] = s->heap[SMALLEST]
build_tree_root(bt) ==
    [bt EXCEPT !.s.heap_max = @ - 1,
               !.s.heap[bt.s.heap_max] = bt.s.heap[SMALLEST + 1]]
\* the static tree of desc, if it has one
has_stree(desc) == desc.stat_desc.static_tree # NoTree

\* extra_of for an alphabet without extra bits
extra_none(desc, n) == 0

\* xbits = 0; if (n >= base) xbits = extra[n - base]
extra_of(desc, n) ==
    IF n >= desc.stat_desc.extra_base
    THEN desc.stat_desc.extra_bits[n - desc.stat_desc.extra_base + 1]
    ELSE 0

\* gen_bitlen up to its first loop: bl_count cleared, the root given length 0
gen_bitlen_start(bt, desc) ==
    [bt EXCEPT !.s.bl_count = Fill(MAX_BITS + 1, 0),
               !.s[desc.dyn_tree].dl[bt.s.heap[bt.s.heap_max + 1] + 1] = 0,
               !.overflow = 0]

\* One node of the first loop, its length cut to max_length (over = 1 then):
\* a leaf is counted in bl_count and in the two costs.
gen_bitlen_node(bt, desc, n, bits, over) ==
    IF n > bt.s[desc.desc].max_code
    THEN [bt EXCEPT !.s[desc.dyn_tree].dl[n + 1] = bits, !.overflow = @ + over]
    ELSE [bt EXCEPT !.s[desc.dyn_tree].dl[n + 1] = bits,
                    !.overflow = @ + over,
                    !.s.bl_count[bits + 1] = (@ + 1) % 65536,
                    !.s.opt_len = @ + bt.s[desc.dyn_tree].fc[n + 1] * (bits + extra_of(desc, n)),
                    !.s.static_len =
                        IF has_stree(desc)
                        THEN @ + bt.s[desc.dyn_tree].fc[n + 1]
                                   * (desc.stat_desc.static_tree.dl[n + 1] + extra_of(desc, n))
                        ELSE @]

\* bits = tree[tree[n].Dad].Len + 1;
\* if (bits > max_length) bits = max_length, overflow++
gen_bitlen_depth(bt, desc, n, bits) ==
    IF bits > desc.stat_desc.max_length
    THEN gen_bitlen_node(bt, desc, n, desc.stat_desc.max_length, 1)
    ELSE gen_bitlen_node(bt, desc, n, bits, 0)

gen_bitlen_turn(bt, desc, h) ==
    gen_bitlen_depth(bt, desc, bt.s.heap[h + 1],
                     bt.s[desc.dyn_tree].dl[bt.s[desc.dyn_tree].dl[bt.s.heap[h + 1] + 1] + 1] + 1)

\* gen_bitlen_scan going from HEAP_SIZE - 1 down, sons before parents
RECURSIVE gen_bitlen_scan_down(_, _, _, _)
gen_bitlen_scan_down(bt, desc, lo, hi) ==
    IF DOMAIN bt # DOMAIN bt THEN bt
    ELSE IF lo > hi THEN bt
    ELSE IF lo = hi THEN gen_bitlen_turn(bt, desc, lo)
    ELSE gen_bitlen_scan_down(gen_bitlen_scan_down(bt, desc, ((lo + hi) \div 2) + 1, hi),
                              desc, lo, (lo + hi) \div 2)

\* for (h = s->heap_max + 1; h < HEAP_SIZE; h++)
RECURSIVE gen_bitlen_scan(_, _, _, _)
gen_bitlen_scan(bt, desc, lo, hi) ==
    IF DOMAIN bt # DOMAIN bt THEN bt
    ELSE IF lo > hi THEN bt
    ELSE IF lo = hi THEN gen_bitlen_turn(bt, desc, lo)
    ELSE gen_bitlen_scan(gen_bitlen_scan(bt, desc, lo, (lo + hi) \div 2), desc,
                         ((lo + hi) \div 2) + 1, hi)

\* while (s->bl_count[bits] == 0) bits--
RECURSIVE gen_bitlen_find(_, _)
gen_bitlen_find(bl_count, bits) ==
    IF bl_count[bits + 1] = 0 THEN gen_bitlen_find(bl_count, bits - 1) ELSE bits

\* gen_bitlen_move putting back one code only
gen_bitlen_move_one(bl_count, bits, max_length) ==
    [[[bl_count EXCEPT ![bits + 1] = (@ + 65535) % 65536]
                EXCEPT ![bits + 2] = (@ + 1) % 65536]
                EXCEPT ![max_length + 1] = (@ + 65535) % 65536]

\* s->bl_count[bits]--; s->bl_count[bits + 1] += 2; s->bl_count[max_length]--
gen_bitlen_move(bl_count, bits, max_length) ==
    [[[bl_count EXCEPT ![bits + 1] = (@ + 65535) % 65536]
                EXCEPT ![bits + 2] = (@ + 2) % 65536]
                EXCEPT ![max_length + 1] = (@ + 65535) % 65536]

\* gen_bitlen_repair_turn with overflow--
gen_bitlen_repair_turn_one(bt, desc) ==
    IF bt.overflow <= 0 THEN bt
    ELSE [bt EXCEPT !.s.bl_count =
                        gen_bitlen_move(@, gen_bitlen_find(@, desc.stat_desc.max_length - 1),
                                        desc.stat_desc.max_length),
                    !.overflow = @ - 1]

\* one turn of do { ... } while (overflow > 0)
gen_bitlen_repair_turn(bt, desc) ==
    IF bt.overflow <= 0 THEN bt
    ELSE [bt EXCEPT !.s.bl_count =
                        gen_bitlen_move(@, gen_bitlen_find(@, desc.stat_desc.max_length - 1),
                                        desc.stat_desc.max_length),
                    !.overflow = @ - 2]

RECURSIVE gen_bitlen_repair(_, _, _)
gen_bitlen_repair(bt, desc, count) ==
    IF DOMAIN bt # DOMAIN bt THEN bt
    ELSE IF count <= 0 THEN bt
    ELSE IF count = 1 THEN gen_bitlen_repair_turn(bt, desc)
    ELSE gen_bitlen_repair(gen_bitlen_repair(bt, desc, count \div 2), desc,
                           count - (count \div 2))

\* The last loop of gen_bitlen on as = [s, h, bits, n], one step a turn:
\* the next length when n == 0, else m = s->heap[--h], which is skipped when
\* it is no leaf and gets the length bits otherwise.
gen_bitlen_assign_turn(as, desc) ==
    IF as.bits = 0 THEN as
    ELSE IF as.n = 0
    THEN [as EXCEPT !.bits = @ - 1,
                    !.n = IF as.bits - 1 # 0 THEN as.s.bl_count[as.bits] ELSE 0]
    ELSE IF as.s.heap[as.h] > as.s[desc.desc].max_code
    THEN [as EXCEPT !.h = @ - 1]
    ELSE IF as.s[desc.dyn_tree].dl[as.s.heap[as.h] + 1] # as.bits
    THEN [as EXCEPT !.h = @ - 1, !.n = @ - 1,
                    !.s.opt_len = @ + (as.bits - as.s[desc.dyn_tree].dl[as.s.heap[as.h] + 1])
                                        * as.s[desc.dyn_tree].fc[as.s.heap[as.h] + 1],
                    !.s[desc.dyn_tree].dl[as.s.heap[as.h] + 1] = as.bits]
    ELSE [as EXCEPT !.h = @ - 1, !.n = @ - 1]

RECURSIVE gen_bitlen_assign(_, _, _)
gen_bitlen_assign(as, desc, count) ==
    IF DOMAIN as # DOMAIN as THEN as
    ELSE IF count <= 0 THEN as
    ELSE IF count = 1 THEN gen_bitlen_assign_turn(as, desc)
    ELSE gen_bitlen_assign(gen_bitlen_assign(as, desc, count \div 2), desc,
                           count - (count \div 2))

\* gen_bitlen_reassign that leaves the lengths as the first loop cut them
gen_bitlen_unassigned(bt, desc) == bt

\* gen_bitlen after the repair of the counts: the lengths are given out again
\* from the longest on, h standing at HEAP_SIZE
gen_bitlen_reassign(bt, desc) ==
    [bt EXCEPT !.s =
        gen_bitlen_assign([s |-> bt.s, h |-> HEAP_SIZE,
                           bits |-> desc.stat_desc.max_length,
                           n |-> bt.s.bl_count[desc.stat_desc.max_length + 1]],
                          desc, HEAP_SIZE + desc.stat_desc.max_length).s]

\* gen_bitlen after its first loop: if (overflow == 0) return; else the two
\* loops that repair the lengths
gen_bitlen_fix(bt, desc) ==
    IF bt.overflow = 0 THEN bt
    ELSE gen_bitlen_reassign(gen_bitlen_repair(bt, desc, (bt.overflow + 1) \div 2), desc)

\* gen_bitlen up to the end of its first loop; overflow is what it counted
gen_bitlen_lengths(bt, desc) ==
    gen_bitlen_scan(gen_bitlen_start(bt, desc), desc, bt.s.heap_max + 1, HEAP_SIZE - 1)

\* gen_bitlen(s, desc)
gen_bitlen(bt, desc) == gen_bitlen_fix(gen_bitlen_lengths(bt, desc), desc)

\* gen_codes((ct_data*)tree, max_code, s->bl_count)
build_tree_codes(bt, desc) ==
    [bt EXCEPT !.s[desc.dyn_tree] = gen_codes(@, bt.max_code, bt.s.bl_count)]

\* do { ... } while (s->heap_len >= 2): a turn takes one node off the heap
build_tree_merge_all(bt, desc) == build_tree_merges(bt, desc, bt.s.heap_len - 1)

\* build_tree(s, desc)
build_tree(st, desc) ==
    build_tree_codes(
        gen_bitlen(build_tree_root(build_tree_merge_all(build_tree_heap(st, desc), desc)),
                   desc),
        desc).s

(***************************************************************************)
(* The tree builder driven on bounded frequency arrays                     *)
(***************************************************************************)
MaxSyms == 18          \* symbols that are given a frequency

Junk == {0, 255}
FreqKinds == {"flat", "ramp", "fib"}

DescOf(name) ==
    IF name = "l_desc" THEN l_desc ELSE IF name = "d_desc" THEN d_desc ELSE bl_desc

RECURSIVE FibFill(_, _)
FibFill(t, k) ==
    IF Len(t) >= k THEN SubSeq(t, 1, k)
    ELSE FibFill(Append(t, t[Len(t) - 1] + t[Len(t)]), k)

RECURSIVE RampFill(_, _)
RampFill(t, k) == IF Len(t) >= k THEN t ELSE RampFill(Append(t, Len(t) + 1), k)

\* the frequencies of k symbols
Weights(kind, k) ==
    IF kind = "flat" THEN Fill(k, 1)
    ELSE IF kind = "ramp" THEN RampFill(<<>>, k)
    ELSE FibFill(<<1, 1>>, k)

\* The state at the end of a block: k symbols from off on were counted, and
\* END_BLOCK, which init_block counts once in the literal tree.
tree_input(desc, k, kind, off, junk) ==
    LET st   == _tr_init(deflate_state(junk, 6, 0, 0))
        n    == desc.stat_desc.elems
        fc0  == Fill(off, 0) \o Weights(kind, k) \o Fill(n - off - k, 0)
                    \o SubSeq(st[desc.dyn_tree].fc, n + 1, Len(st[desc.dyn_tree].fc))
    IN  [st EXCEPT ![desc.dyn_tree].fc =
            IF desc.desc = "l_desc"
            THEN [fc0 EXCEPT ![END_BLOCK + 1] = IF @ = 0 THEN 1 ELSE @]
            ELSE fc0]

\* where the k symbols start: at the first or the second symbol, so that they
\* end at the last one, or so that they end at END_BLOCK when the tree has it
TreeOffsets(elems, k) ==
    {0, elems - k, IF k < elems THEN 1 ELSE 0,
     IF END_BLOCK + 1 <= elems /\ k <= END_BLOCK + 1 THEN END_BLOCK + 1 - k ELSE 0}

\* opt_len and static_len when build_tree is entered: 0 for the first tree
\* of a block, what the trees before it cost for the others
LenStarts(desc) == IF desc.desc = "l_desc" THEN {0} ELSE {0, 1000}

\* build_tree entered; arg keeps the frequencies and the two lengths it found
TreeInit ==
    /\ CrcIdle
    /\ \E desc \in {l_desc, d_desc, bl_desc}, kind \in FreqKinds, junk \in Junk :
         \E k \in 0..(IF MaxSyms < desc.stat_desc.elems THEN MaxSyms
                      ELSE desc.stat_desc.elems) :
           \E off \in TreeOffsets(desc.stat_desc.elems, k) :
             \E len \in LenStarts(desc) :
              /\ s = [tree_input(desc, k, kind, off, junk)
                         EXCEPT !.opt_len = len, !.static_len = len]
              /\ arg = [desc |-> desc.desc, max_code |-> -1, node |-> 0,
                        overflow |-> 0, cut |-> 0,
                        freq |-> SubSeq(s[desc.dyn_tree].fc, 1, desc.stat_desc.elems),
                        opt_len |-> len, static_len |-> len]
    /\ pc = "heap"
    /\ sent = <<>>

\* the locals of build_tree and gen_bitlen next to s
Frame == [s |-> s, max_code |-> arg.max_code, node |-> arg.node, overflow |-> arg.overflow]

\* build_tree, lines 272-292
BuildTreeHeap ==
    /\ pc = "heap"
    /\ \E bt \in {build_tree_heap(s, DescOf(arg.desc))} :
          /\ s' = bt.s
          /\ arg' = [arg EXCEPT !.max_code = bt.max_code, !.node = bt.node]
    /\ pc' = "merge"
    /\ UNCHANGED <<sent, crcvars>>

\* build_tree, one turn of the loop of lines 295-314
BuildTreeMerge ==
    /\ pc = "merge"
    /\ \E bt \in {build_tree_merge(Frame, DescOf(arg.desc))} :
          /\ s' = bt.s
          /\ arg' = [arg EXCEPT !.node = bt.node]
          /\ pc' = IF bt.s.heap_len >= 2 THEN "merge" ELSE "bitlen"
    /\ UNCHANGED <<sent, crcvars>>

\* build_tree line 316 and gen_bitlen, lines 215-233
GenBitlenLengths ==
    /\ pc = "bitlen"
    /\ \E bt \in {gen_bitlen_lengths(build_tree_root(Frame), DescOf(arg.desc))} :
          /\ s' = bt.s
          /\ arg' = [arg EXCEPT !.overflow = bt.overflow, !.cut = bt.overflow]
          /\ pc' = IF bt.overflow = 0 THEN "codes" ELSE "repair"
    /\ UNCHANGED <<sent, crcvars>>

\* gen_bitlen, one turn of the loop of lines 236-243
GenBitlenRepair ==
    /\ pc = "repair"
    /\ \E bt \in {gen_bitlen_repair_turn(Frame, DescOf(arg.desc))} :
          /\ s' = bt.s
          /\ arg' = [arg EXCEPT !.overflow = bt.overflow]
          /\ pc' = IF bt.overflow > 0 THEN "repair" ELSE "assign"
    /\ UNCHANGED <<sent, crcvars>>

\* gen_bitlen, lines 245-257
GenBitlenReassign ==
    /\ pc = "assign"
    /\ s' = gen_bitlen_reassign(Frame, DescOf(arg.desc)).s
    /\ pc' = "codes"
    /\ UNCHANGED <<arg, sent, crcvars>>

\* build_tree line 320
GenCodes ==
    /\ pc = "codes"
    /\ s' = build_tree_codes(Frame, DescOf(arg.desc)).s
    /\ pc' = "built"
    /\ UNCHANGED <<arg, sent, crcvars>>

TreeNext ==
    \/ BuildTreeHeap \/ BuildTreeMerge \/ GenBitlenLengths
    \/ GenBitlenRepair \/ GenBitlenReassign \/ GenCodes
SpecTree == TreeInit /\ [][TreeNext]_vars

(***************************************************************************)
(* Properties of the tree builder                                          *)
(***************************************************************************)
\* the tree build_tree works on, its lengths and the symbols that have a code
Tree == s[DescOf(arg.desc).dyn_tree]
Used == {n \in 0..arg.max_code : Tree.dl[n + 1] # 0}

\* the sum of 2^(MAX_BITS - Len) over the symbols lo..hi that have a code
RECURSIVE KraftSum(_, _, _)
KraftSum(dl, lo, hi) ==
    IF lo > hi THEN 0
    ELSE IF lo = hi THEN (IF dl[lo + 1] = 0 THEN 0 ELSE 2 ^ (MAX_BITS - dl[lo + 1]))
    ELSE KraftSum(dl, lo, (lo + hi) \div 2) + KraftSum(dl, ((lo + hi) \div 2) + 1, hi)

\* code after the first loop of gen_codes, before it is cut to a ush
RECURSIVE CodeAfter(_, _)
CodeAfter(bl_count, bits) ==
    IF bits = 0 THEN 0 ELSE 2 * (CodeAfter(bl_count, bits - 1) + bl_count[bits])

\* the code of n as it is written: Len bits of Code, the lowest first.  The
\* code of n is a prefix of the code of m when the low Len[n] bits of m's are
\* n's.
IsPrefix(tree, n, m) ==
    /\ tree.dl[n + 1] <= tree.dl[m + 1]
    /\ tree.fc[m + 1] % (2 ^ tree.dl[n + 1]) = tree.fc[n + 1]

PrefixFree(tree, used) == \A n \in used : \A m \in used \ {n} : ~IsPrefix(tree, n, m)

\* C1: after build_tree, whatever the frequencies (none or one of them
\* non-zero, or such that lengths had to be repaired), the sum of 2^-Len over
\* the symbols 0..max_code with Len # 0 is 1, and the check of gen_codes
\* holds: code + bl_count[MAX_BITS] is 2^MAX_BITS after its first loop.
C1_KraftEquality ==
    pc = "built" =>
        /\ KraftSum(Tree.dl, 0, arg.max_code) = 2 ^ MAX_BITS
        /\ CodeAfter(s.bl_count, MAX_BITS) + s.bl_count[MAX_BITS + 1] = 2 ^ MAX_BITS

\* a tree whose lengths were repaired
C1_Witness ==
    /\ pc = "built" /\ arg.cut > 0 /\ arg.desc = "l_desc"
    /\ KraftSum(Tree.dl, 0, arg.max_code) = 2 ^ MAX_BITS

\* C2: after build_tree no two symbols with a code have the same code, and no
\* code is a prefix of another, a code being the Len bits written to the
\* stream (Code read from its lowest bit).
C2_PrefixFree ==
    pc = "built" => PrefixFree(Tree, Used)

\* codes of several lengths
C2_Witness ==
    /\ pc = "built"
    /\ Cardinality(Used) >= 5
    /\ Cardinality({Tree.dl[n + 1] : n \in Used}) >= 3
    /\ PrefixFree(Tree, Used)

\* C3: when the tree had a leaf deeper than max_length, then after gen_bitlen
\* every symbol with a frequency has a length in 1..max_length, bl_count[b] is
\* the number of symbols of length b for b in 1..MAX_BITS, and the lengths are
\* those of a complete prefix code, which the codes given to them then are.
C3_RepairedLengths ==
    /\ (pc = "codes" /\ arg.cut > 0) =>
          /\ \A n \in 0..(DescOf(arg.desc).stat_desc.elems - 1) :
                Tree.fc[n + 1] # 0 =>
                    Tree.dl[n + 1] \in 1..DescOf(arg.desc).stat_desc.max_length
          /\ \A b \in 1..MAX_BITS :
                s.bl_count[b + 1] = Cardinality({n \in 0..arg.max_code : Tree.dl[n + 1] = b})
          /\ KraftSum(Tree.dl, 0, arg.max_code) = 2 ^ MAX_BITS
    /\ (pc = "built" /\ arg.cut > 0) =>
          /\ \A n \in Used : Tree.dl[n + 1] <= DescOf(arg.desc).stat_desc.max_length
          /\ PrefixFree(Tree, Used)

\* the bit-length tree repaired, symbols at max_length
C3_Witness ==
    /\ pc = "codes" /\ arg.cut > 2 /\ arg.desc = "bl_desc"
    /\ \E n \in 0..arg.max_code : Tree.dl[n + 1] = MAX_BL_BITS
    /\ KraftSum(Tree.dl, 0, arg.max_code) = 2 ^ MAX_BITS

(***************************************************************************)
(* trees.cpp: the bit-length tree and the trees sent in a dynamic block    *)
(***************************************************************************)
\* the end of a turn of scan_tree and send_tree: count = 0; prevlen = curlen;
\* and the counts that close the next run
scan_tree_next(sc, curlen, nextlen) ==
    [sc EXCEPT !.count = 0, !.prevlen = curlen, !.nextlen = nextlen,
               !.max_count = IF nextlen = 0 THEN 138 ELSE IF curlen = nextlen THEN 6 ELSE 7,
               !.min_count = IF nextlen = 0 THEN 3 ELSE IF curlen = nextlen THEN 3 ELSE 4]

\* scan_tree_count counting a short run as one length
scan_tree_count_once(sc, curlen, count) ==
    IF count < sc.min_count
    THEN [sc EXCEPT !.s.bl_tree.fc[curlen + 1] = (@ + 1) % 65536]
    ELSE IF curlen # 0
    THEN [sc EXCEPT !.s.bl_tree.fc[curlen + 1] =
                        IF curlen # sc.prevlen THEN (@ + 1) % 65536 ELSE @,
                    !.s.bl_tree.fc[REP_3_6 + 1] = (@ + 1) % 65536]
    ELSE IF count <= 10
    THEN [sc EXCEPT !.s.bl_tree.fc[REPZ_3_10 + 1] = (@ + 1) % 65536]
    ELSE [sc EXCEPT !.s.bl_tree.fc[REPZ_11_138 + 1] = (@ + 1) % 65536]

\* scan_tree: a run of count lengths curlen is counted in bl_tree
scan_tree_count(sc, curlen, count) ==
    IF count < sc.min_count
    THEN [sc EXCEPT !.s.bl_tree.fc[curlen + 1] = (@ + count) % 65536]
    ELSE IF curlen # 0
    THEN [sc EXCEPT !.s.bl_tree.fc[curlen + 1] =
                        IF curlen # sc.prevlen THEN (@ + 1) % 65536 ELSE @,
                    !.s.bl_tree.fc[REP_3_6 + 1] = (@ + 1) % 65536]
    ELSE IF count <= 10
    THEN [sc EXCEPT !.s.bl_tree.fc[REPZ_3_10 + 1] = (@ + 1) % 65536]
    ELSE [sc EXCEPT !.s.bl_tree.fc[REPZ_11_138 + 1] = (@ + 1) % 65536]

\* if (++count < max_count && curlen == nextlen) continue; else ...
scan_tree_run(sc, curlen, nextlen, count) ==
    IF count < sc.max_count /\ curlen = nextlen
    THEN [sc EXCEPT !.nextlen = nextlen, !.count = count]
    ELSE scan_tree_next(scan_tree_count(sc, curlen, count), curlen, nextlen)

\* curlen = nextlen; nextlen = tree[n + 1].Len; ...
scan_tree_turn(sc, tree, n) ==
    scan_tree_run(sc, sc.nextlen, sc.s[tree].dl[n + 2], sc.count + 1)

RECURSIVE scan_tree_loop(_, _, _, _)
scan_tree_loop(sc, tree, lo, hi) ==
    IF DOMAIN sc # DOMAIN sc THEN sc
    ELSE IF lo > hi THEN sc
    ELSE IF lo = hi THEN scan_tree_turn(sc, tree, lo)
    ELSE scan_tree_loop(scan_tree_loop(sc, tree, lo, (lo + hi) \div 2), tree,
                        ((lo + hi) \div 2) + 1, hi)

\* the locals of scan_tree and send_tree at the head of their loop
scan_tree_start(st, nextlen) ==
    [s |-> st, prevlen |-> -1, nextlen |-> nextlen, count |-> 0,
     max_count |-> IF nextlen = 0 THEN 138 ELSE 7,
     min_count |-> IF nextlen = 0 THEN 3 ELSE 4]

\* scan_tree(s, tree, max_code); tree[max_code + 1].Len = 0xffff is the guard
scan_tree(st, tree, max_code) ==
    scan_tree_loop(
        scan_tree_start([st EXCEPT ![tree].dl[max_code + 2] = 65535], st[tree].dl[1]),
        tree, 0, max_code).s

\* do { send_code(s, curlen, s->bl_tree); } while (--count != 0);
RECURSIVE send_tree_codes(_, _, _)
send_tree_codes(st, curlen, count) ==
    IF count <= 1 THEN send_code(st, curlen, st.bl_tree)
    ELSE send_tree_codes(send_code(st, curlen, st.bl_tree), curlen, count - 1)

\* send_code(s, REP_3_6, s->bl_tree); send_bits(s, count - 3, 2);
send_tree_rep(st, count) == send_bits(send_code(st, REP_3_6, st.bl_tree), count - 3, 2)

\* send_tree: a run of count lengths curlen is sent
send_tree_count(sc, curlen, count) ==
    IF count < sc.min_count
    THEN [sc EXCEPT !.s = send_tree_codes(@, curlen, count)]
    ELSE IF curlen # 0
    THEN IF curlen # sc.prevlen
         THEN [sc EXCEPT !.s = send_tree_rep(send_code(@, curlen, @.bl_tree), count - 1)]
         ELSE [sc EXCEPT !.s = send_tree_rep(@, count)]
    ELSE IF count <= 10
    THEN [sc EXCEPT !.s = send_bits(send_code(@, REPZ_3_10, @.bl_tree), count - 3, 3)]
    ELSE [sc EXCEPT !.s = send_bits(send_code(@, REPZ_11_138, @.bl_tree), count - 11, 7)]

send_tree_run(sc, curlen, nextlen, count) ==
    IF count < sc.max_count /\ curlen = nextlen
    THEN [sc EXCEPT !.nextlen = nextlen, !.count = count]
    ELSE scan_tree_next(send_tree_count(sc, curlen, count), curlen, nextlen)

send_tree_turn(sc, tree, n) ==
    send_tree_run(sc, sc.nextlen, sc.s[tree].dl[n + 2], sc.count + 1)

RECURSIVE send_tree_loop(_, _, _, _)
send_tree_loop(sc, tree, lo, hi) ==
    IF DOMAIN sc # DOMAIN sc THEN sc
    ELSE IF lo > hi THEN sc
    ELSE IF lo = hi THEN send_tree_turn(sc, tree, lo)
    ELSE send_tree_loop(send_tree_loop(sc, tree, lo, (lo + hi) \div 2), tree,
                        ((lo + hi) \div 2) + 1, hi)

\* send_tree(s, tree, max_code)
send_tree(st, tree, max_code) ==
    send_tree_loop(scan_tree_start(st, st[tree].dl[1]), tree, 0, max_code).s

\* for (max_blindex = BL_CODES-1; max_blindex >= 3; max_blindex--)
\*     if (s->bl_tree[bl_order[max_blindex]].Len != 0) break;
RECURSIVE build_bl_tree_index(_, _)
build_bl_tree_index(dl, max_blindex) ==
    IF max_blindex >= 3 /\ dl[bl_order[max_blindex + 1] + 1] = 0
    THEN build_bl_tree_index(dl, max_blindex - 1)
    ELSE max_blindex

\* s->opt_len += 3*((ulg)max_blindex + 1) + 5 + 5 + 4; return max_blindex;
build_bl_tree_cost(st, max_blindex) ==
    [s |-> [st EXCEPT !.opt_len = @ + 3 * (max_blindex + 1) + 5 + 5 + 4],
     max_blindex |-> max_blindex]

build_bl_tree_built(st) ==
    build_bl_tree_cost(st, build_bl_tree_index(st.bl_tree.dl, BL_CODES - 1))

\* build_bl_tree(s), which gives [s, max_blindex]
build_bl_tree(st) ==
    build_bl_tree_built(
        build_tree(scan_tree(scan_tree(st, "dyn_ltree", st.l_desc.max_code),
                             "dyn_dtree", st.d_desc.max_code),
                   bl_desc))

\* for (rank = 0; rank < blcodes; rank++)
\*     send_bits(s, s->bl_tree[bl_order[rank]].Len, 3);
RECURSIVE send_all_trees_lens(_, _, _)
send_all_trees_lens(st, rank, blcodes) ==
    IF rank >= blcodes THEN st
    ELSE send_all_trees_lens(send_bits(st, st.bl_tree.dl[bl_order[rank + 1] + 1], 3),
                             rank + 1, blcodes)

\* send_all_trees(s, lcodes, dcodes, blcodes)
send_all_trees(st, lcodes, dcodes, blcodes) ==
    send_tree(
        send_tree(
            send_all_trees_lens(
                send_bits(send_bits(send_bits(st, lcodes - 257, 5), dcodes - 1, 5),
                          blcodes - 4, 4),
                0, blcodes),
            "dyn_ltree", lcodes - 1),
        "dyn_dtree", dcodes - 1)

(***************************************************************************)
(* trees.cpp: the blocks                                                   *)
(***************************************************************************)
\* zmemcpy(s->pending_buf + s->pending, buf, stored_len); s->pending += stored_len
stored_copy(st, mem, stored_len) ==
    [st EXCEPT !.pending_buf = IF stored_len # 0
                               THEN SubSeq(@, 1, st.pending) \o SubSeq(mem, 1, stored_len)
                                        \o SubSeq(@, st.pending + stored_len + 1, Len(@))
                               ELSE @,
               !.pending = @ + stored_len]

\* _tr_stored_block that leaves out the complement of the length
tr_stored_block_nolen(st, from, stored_len, last) ==
    stored_copy(
        put_short(bi_windup(send_bits(st, (STORED_BLOCK * 2) + last, 3)), stored_len % 65536),
        from.mem, stored_len)

\* _tr_stored_block(s, buf, stored_len, last), from being its buf
_tr_stored_block(st, from, stored_len, last) ==
    stored_copy(
        put_short(
            put_short(bi_windup(send_bits(st, (STORED_BLOCK * 2) + last, 3)),
                      stored_len % 65536),
            65535 - (stored_len % 65536)),
        from.mem, stored_len)

\* _tr_flush_bits(s)
_tr_flush_bits(st) == bi_flush(st)

\* _tr_align(s)
_tr_align(st) ==
    bi_flush(send_code(send_bits(st, STATIC_TREES * 2, 3), END_BLOCK, static_ltree))

\* if (extra != 0) send_bits(s, v, extra)
compress_block_extra(st, v, extra) == IF extra # 0 THEN send_bits(st, v, extra) ELSE st

\* compress_block: the length of a match, its code and its extra bits
compress_block_len(st, ltree, lc, code) ==
    compress_block_extra(send_code(st, code + LITERALS + 1, ltree),
                         lc - base_length[code + 1], extra_lbits[code + 1])

\* compress_block: the distance of a match (dist-- done), its code and its
\* extra bits
compress_block_dist(st, dtree, dist, code) ==
    compress_block_extra(send_code(st, code, dtree),
                         dist - base_dist[code + 1], extra_dbits[code + 1])

compress_block_sym(st, ltree, dtree, dist, lc) ==
    IF dist = 0 THEN send_code(st, lc, ltree)
    ELSE compress_block_dist(compress_block_len(st, ltree, lc, _length_code[lc + 1]),
                             dtree, dist - 1, d_code(dist - 1))

\* one turn of compress_block's loop, on the three bytes at sx
compress_block_turn(st, ltree, dtree, sx) ==
    compress_block_sym(st, ltree, dtree,
                       (st.sym_buf[sx + 1] % 256) + 256 * (st.sym_buf[sx + 2] % 256),
                       st.sym_buf[sx + 3])

\* the turns for the symbols lo..hi of sym_buf
RECURSIVE compress_block_loop(_, _, _, _, _)
compress_block_loop(st, ltree, dtree, lo, hi) ==
    IF DOMAIN st # DOMAIN st THEN st
    ELSE IF lo > hi THEN st
    ELSE IF lo = hi THEN compress_block_turn(st, ltree, dtree, 3 * lo)
    ELSE compress_block_loop(compress_block_loop(st, ltree, dtree, lo, (lo + hi) \div 2),
                             ltree, dtree, ((lo + hi) \div 2) + 1, hi)

\* compress_block that does not close the block
compress_block_open(st, ltree, dtree) ==
    IF st.sym_next # 0
    THEN compress_block_loop(st, ltree, dtree, 0, ((st.sym_next + 2) \div 3) - 1)
    ELSE st

\* compress_block(s, ltree, dtree): do { ... } while (sx < s->sym_next) when
\* sym_next != 0, then END_BLOCK
compress_block(st, ltree, dtree) ==
    send_code(IF st.sym_next # 0
              THEN compress_block_loop(st, ltree, dtree, 0, ((st.sym_next + 2) \div 3) - 1)
              ELSE st,
              END_BLOCK, ltree)

\* unsigned long block_mask = 0xf3ffc07fUL, least-significant byte first
block_mask == <<127, 192, 255, 243>>

\* detect_data_type: a block-listed byte among 0..31 was counted
RECURSIVE detect_data_type_block(_, _)
detect_data_type_block(fc, n) ==
    IF n > 31 THEN FALSE
    ELSE IF BitOf(block_mask, n) = 1 /\ fc[n + 1] # 0 THEN TRUE
    ELSE detect_data_type_block(fc, n + 1)

\* detect_data_type: one of the literals lo..hi was counted
RECURSIVE detect_data_type_allow(_, _, _)
detect_data_type_allow(fc, lo, hi) ==
    IF lo > hi THEN FALSE
    ELSE IF lo = hi THEN fc[lo + 1] # 0
    ELSE \/ detect_data_type_allow(fc, lo, (lo + hi) \div 2)
         \/ detect_data_type_allow(fc, ((lo + hi) \div 2) + 1, hi)

\* detect_data_type(s)
detect_data_type(st) ==
    IF detect_data_type_block(st.dyn_ltree.fc, 0) THEN Z_BINARY
    ELSE IF \/ st.dyn_ltree.fc[9 + 1] # 0 \/ st.dyn_ltree.fc[10 + 1] # 0
            \/ st.dyn_ltree.fc[13 + 1] # 0
    THEN Z_TEXT
    ELSE IF detect_data_type_allow(st.dyn_ltree.fc, 32, LITERALS - 1) THEN Z_TEXT
    ELSE Z_BINARY

\* if (s->strm->data_type == Z_UNKNOWN) s->strm->data_type = detect_data_type(s)
tr_flush_block_type(st) ==
    IF st.strm_data_type = Z_UNKNOWN
    THEN [st EXCEPT !.strm_data_type = detect_data_type(st)]
    ELSE st

\* _tr_flush_block, lines 537-547: the three trees, which gives [s, max_blindex]
tr_flush_block_trees(st) ==
    build_bl_tree(build_tree(build_tree(tr_flush_block_type(st), l_desc), d_desc))

\* tr_flush_block_pick that keeps the dynamic cost whatever the strategy
tr_flush_block_pick_free(bb, opt_lenb, static_lenb) ==
    [s |-> bb.s, max_blindex |-> bb.max_blindex, static_lenb |-> static_lenb,
     opt_lenb |-> IF static_lenb <= opt_lenb THEN static_lenb ELSE opt_lenb]

\* if (static_lenb <= opt_lenb || s->strategy == Z_FIXED) opt_lenb = static_lenb;
\* the locals of _tr_flush_block next to s
tr_flush_block_pick(bb, opt_lenb, static_lenb) ==
    [s |-> bb.s, max_blindex |-> bb.max_blindex, static_lenb |-> static_lenb,
     opt_lenb |-> IF static_lenb <= opt_lenb \/ bb.s.strategy = Z_FIXED
                  THEN static_lenb ELSE opt_lenb]

\* opt_lenb = (s->opt_len + 3 + 7) >> 3; static_lenb = (s->static_len + 3 + 7) >> 3
tr_flush_block_costs(bb) ==
    tr_flush_block_pick(bb, (bb.s.opt_len + 3 + 7) \div 8, (bb.s.static_len + 3 + 7) \div 8)

\* _tr_flush_block, lines 536-564
tr_flush_block_estimate(st, stored_len) ==
    IF st.level > 0 THEN tr_flush_block_costs(tr_flush_block_trees(st))
    ELSE [s |-> st, max_blindex |-> 0,
          static_lenb |-> stored_len + 5, opt_lenb |-> stored_len + 5]

\* the dynamic block of _tr_flush_block, after its header
tr_flush_block_dyn(fl) ==
    send_all_trees(fl.s, fl.s.l_desc.max_code + 1, fl.s.d_desc.max_code + 1,
                   fl.max_blindex + 1)

\* compress_block(s, s->dyn_ltree, s->dyn_dtree)
compress_block_dyn(st) == compress_block(st, st.dyn_ltree, st.dyn_dtree)

\* _tr_flush_block, lines 566-590, on the locals fl
tr_flush_block_emit(fl, from, stored_len, last) ==
    IF stored_len + 4 <= fl.opt_lenb /\ ~from.null
    THEN _tr_stored_block(fl.s, from, stored_len, last)
    ELSE IF fl.static_lenb = fl.opt_lenb
    THEN compress_block(send_bits(fl.s, (STATIC_TREES * 2) + last, 3),
                        static_ltree, static_dtree)
    ELSE compress_block_dyn(
             tr_flush_block_dyn([fl EXCEPT !.s = send_bits(@, (DYN_TREES * 2) + last, 3)]))

\* _tr_flush_block, lines 592-599
tr_flush_block_reset(st, last) ==
    IF last # 0 THEN bi_windup(init_block(st)) ELSE init_block(st)

\* _tr_flush_block(s, buf, stored_len, last), from being its buf
_tr_flush_block(st, from, stored_len, last) ==
    tr_flush_block_reset(
        tr_flush_block_emit(tr_flush_block_estimate(st, stored_len), from, stored_len, last),
        last)

\* tr_tally_put with the high byte of dist put first
tr_tally_put_swapped(st, dist, lc) ==
    [st EXCEPT !.sym_buf = PutAt(PutAt(PutAt(@, st.sym_next, (dist \div 256) % 256),
                                       st.sym_next + 1, dist % 256),
                                 st.sym_next + 2, lc % 256),
               !.sym_next = @ + 3]

\* _tr_tally: the three bytes put in sym_buf
tr_tally_put(st, dist, lc) ==
    [st EXCEPT !.sym_buf = PutAt(PutAt(PutAt(@, st.sym_next, dist % 256),
                                       st.sym_next + 1, (dist \div 256) % 256),
                                 st.sym_next + 2, lc % 256),
               !.sym_next = @ + 3]

\* _tr_tally: the symbol counted
tr_tally_count(st, dist, lc) ==
    IF dist = 0
    THEN [st EXCEPT !.dyn_ltree.fc[lc + 1] = (@ + 1) % 65536]
    ELSE [st EXCEPT !.matches = @ + 1,
                    !.dyn_ltree.fc[_length_code[lc + 1] + LITERALS + 1 + 1] = (@ + 1) % 65536,
                    !.dyn_dtree.fc[d_code(dist - 1) + 1] = (@ + 1) % 65536]

\* return (s->sym_next == s->sym_end)
tr_tally_ret(st) == [s |-> st, ret |-> (st.sym_next = st.sym_end)]

\* _tr_tally(s, dist, lc), which gives [s, ret]
_tr_tally(st, dist, lc) == tr_tally_ret(tr_tally_count(tr_tally_put(st, dist, lc), dist, lc))

(***************************************************************************)
(* The blocks driven by a caller that counts symbols and flushes           *)
(***************************************************************************)
MaxTally == 16         \* symbols counted, or bytes stored at level 0, in one run
MaxEarly == 1          \* symbols after which the caller may flush a first block early

Levels == {0, 6}
Strategies == {0, Z_FIXED}
Patterns == {"same", "high", "text", "match", "mixed", "dists"}
\* the caller's sym_end, in symbols
SymEnds == {1, 5, MaxTally}
StoredLens == {0, 1, 3}

\* symbol k of a pattern, as the arguments of _tr_tally
Symbol(pattern, k) ==
    IF pattern = "same" THEN [dist |-> 0, lc |-> 255]
    ELSE IF pattern = "high" THEN [dist |-> 0, lc |-> 200 + (k % 56)]
    ELSE IF pattern = "text" THEN [dist |-> 0, lc |-> 97 + (k % 3)]
    ELSE IF pattern = "dists"
    THEN [dist |-> <<1, 2, 3, 4, 5, 7, 9, 13>>[(k % 8) + 1], lc |-> 10]
    ELSE IF pattern = "mixed"
    THEN IF k % 8 = 0 THEN [dist |-> 0, lc |-> k \div 8]
         ELSE IF k % 8 = 3 THEN [dist |-> 4097, lc |-> 100]
         ELSE IF k % 8 = 5 THEN [dist |-> 1, lc |-> 0]
         ELSE IF k % 8 = 7 THEN [dist |-> 32768, lc |-> MAX_MATCH - MIN_MATCH]
         ELSE [dist |-> 300, lc |-> 10]
    ELSE IF k = 0 THEN [dist |-> 0, lc |-> 0]
    ELSE IF k = 3 THEN [dist |-> 32768, lc |-> MAX_MATCH - MIN_MATCH]
    ELSE [dist |-> 300, lc |-> 10]

\* the caller's buf for stored_len bytes of input
BlockBuf(hasbuf, stored_len) ==
    IF hasbuf THEN Buffer(0, Pattern(stored_len)) ELSE Z_NULL

\* the bits written so far
BitCount(st) == 8 * st.pending + st.bi_valid

BlockInit ==
    /\ CrcIdle
    /\ \E level \in Levels, strategy \in Strategies, pattern \in Patterns,
          sym_end \in SymEnds, hasbuf \in BOOLEAN, junk \in Junk :
          /\ level = 0 => (hasbuf /\ pattern = "same" /\ sym_end = MaxTally /\ strategy = 0)
          /\ s = _tr_init(deflate_state(junk, level, strategy, 3 * sym_end))
          /\ arg = [pattern |-> pattern, hasbuf |-> hasbuf, n |-> 0, len |-> 0,
                    full |-> FALSE, blocks |-> 0, last |-> 0, stored_len |-> 0, mark |-> 0,
                    max_blindex |-> 0, opt_lenb |-> 0, static_lenb |-> 0]
    /\ pc = "tally"
    /\ sent = <<>>

\* no call is under way and the last block was not sent
Idle == pc = "tally" \/ (pc = "flushed" /\ arg.last = 0)

\* _tr_tally(s, dist, lc) for the next symbol of the pattern; sent keeps the
\* calls made for the block
TrTally ==
    /\ Idle
    /\ s.level > 0
    /\ arg.n < MaxTally
    /\ ~arg.full
    /\ \E r \in {_tr_tally(s, Symbol(arg.pattern, arg.n).dist, Symbol(arg.pattern, arg.n).lc)} :
          /\ s' = r.s
          /\ arg' = [arg EXCEPT !.n = @ + 1,
                                !.len = @ + (IF Symbol(arg.pattern, arg.n).dist = 0 THEN 1
                                             ELSE Symbol(arg.pattern, arg.n).lc + MIN_MATCH),
                                !.full = r.ret]
    /\ sent' = Append(sent, <<Symbol(arg.pattern, arg.n).dist, Symbol(arg.pattern, arg.n).lc>>)
    /\ pc' = "tally"
    /\ UNCHANGED crcvars

\* _tr_flush_block(s, buf, stored_len, last), lines 536-564: the caller
\* flushes the input of the block when sym_buf is full or the input ends, or
\* once early in the run; at level 0 it passes the bytes to store
FlushEstimate ==
    /\ Idle
    /\ \E last \in {0, 1}, stored_len \in StoredLens \cup {arg.len} :
          /\ IF s.level > 0
             THEN /\ stored_len = arg.len
                  /\ last = 0 => (arg.full \/ (arg.blocks = 0 /\ arg.n <= MaxEarly))
             ELSE /\ stored_len \in StoredLens
                  /\ arg.n + stored_len <= MaxTally
                  /\ last = 0 => stored_len > 0
          /\ \E fl \in {tr_flush_block_estimate(s, stored_len)} :
                /\ s' = fl.s
                /\ arg' = [arg EXCEPT !.last = last, !.stored_len = stored_len,
                                      !.mark = BitCount(s),
                                      !.max_blindex = fl.max_blindex,
                                      !.opt_lenb = fl.opt_lenb,
                                      !.static_lenb = fl.static_lenb]
    /\ pc' = "emit"
    /\ UNCHANGED <<sent, crcvars>>

\* the locals of _tr_flush_block next to s
Locals ==
    [s |-> s, max_blindex |-> arg.max_blindex,
     opt_lenb |-> arg.opt_lenb, static_lenb |-> arg.static_lenb]

\* _tr_flush_block, lines 566-590
FlushEmit ==
    /\ pc = "emit"
    /\ s' = tr_flush_block_emit(Locals, BlockBuf(arg.hasbuf, arg.stored_len),
                                arg.stored_len, arg.last)
    /\ pc' = "reset"
    /\ UNCHANGED <<arg, sent, crcvars>>

\* _tr_flush_block, lines 592-599, and its return
FlushReset ==
    /\ pc = "reset"
    /\ s' = tr_flush_block_reset(s, arg.last)
    /\ arg' = [arg EXCEPT !.len = 0, !.full = FALSE, !.blocks = @ + 1,
                          !.n = IF s.level > 0 THEN @ ELSE @ + arg.stored_len]
    /\ sent' = <<>>
    /\ pc' = "flushed"
    /\ UNCHANGED crcvars

BlockNext == TrTally \/ FlushEstimate \/ FlushEmit \/ FlushReset
SpecBlock == BlockInit /\ [][BlockNext]_vars


(***************************************************************************)
(* Properties of the blocks                                                *)
(***************************************************************************)
\* bit i of the stream written, the first bit being bit 0
BitAt(st, i) ==
    IF i < 8 * st.pending
    THEN (st.pending_buf[(i \div 8) + 1] \div (2 ^ (i % 8))) % 2
    ELSE (st.bi_buf \div (2 ^ (i - 8 * st.pending))) % 2

\* the three bits written first by the call under way
Header == BitAt(s, arg.mark) + 2 * BitAt(s, arg.mark + 1) + 4 * BitAt(s, arg.mark + 2)

\* the costs in bytes of the block with the static and with the dynamic trees
StaticCost == (s.static_len + 3 + 7) \div 8
DynCost == (s.opt_len + 3 + 7) \div 8
Smaller(a, b) == IF a <= b THEN a ELSE b

\* the type of block a rule names, stored being allowed up to best_len
TypeFor(best_len) ==
    IF arg.hasbuf /\ arg.stored_len + 4 <= best_len THEN STORED_BLOCK
    ELSE IF StaticCost <= DynCost \/ s.strategy = Z_FIXED THEN STATIC_TREES
    ELSE DYN_TREES

\* best_len as the code has it
BestLen ==
    IF s.level = 0 THEN arg.stored_len + 5
    ELSE IF s.strategy = Z_FIXED THEN StaticCost
    ELSE Smaller(StaticCost, DynCost)

\* the last len bits written are those of code
EndsWith(code, len) ==
    \A i \in 0..(len - 1) : BitAt(s, BitCount(s) - len + i) = (code \div (2 ^ i)) % 2

\* what the call wrote is one stored block: the header, the bits up to the
\* next byte, LEN, NLEN and the bytes of buf
OneStored ==
    /\ s.bi_valid = 0
    /\ s.pending = ((arg.mark + 3 + 7) \div 8) + 4 + arg.stored_len
    /\ s.pending_buf[s.pending - arg.stored_len - 3]
         + 256 * s.pending_buf[s.pending - arg.stored_len - 2] = arg.stored_len
    /\ s.pending_buf[s.pending - arg.stored_len - 1]
         + 256 * s.pending_buf[s.pending - arg.stored_len] = 65535 - arg.stored_len
    /\ \A i \in 1..arg.stored_len :
          s.pending_buf[s.pending - arg.stored_len + i] = Pattern(arg.stored_len)[i]

\* what the call wrote is one block of codes: the header and as many bits as
\* the trees cost, of which the last are the code of END_BLOCK
OneCoded(cost, tree) ==
    /\ BitCount(s) = arg.mark + 3 + cost
    /\ EndsWith(tree.fc[END_BLOCK + 1], tree.dl[END_BLOCK + 1])

OneBlock ==
    IF Header \div 2 = STORED_BLOCK THEN OneStored
    ELSE IF Header \div 2 = STATIC_TREES THEN OneCoded(s.static_len, static_ltree)
    ELSE OneCoded(s.opt_len, s.dyn_ltree)

\* C9 (as amended): a call of _tr_flush_block writes one block.  It is stored
\* when buf is not null and stored_len + 4 <= best_len, where at level > 0
\* best_len is the static cost when strategy is Z_FIXED and the smaller of
\* the static and the dynamic cost otherwise, and at level 0 (no tree is
\* built, buf is required) best_len is stored_len + 5; otherwise it is static
\* when the static cost is <= the dynamic cost or strategy is Z_FIXED, and
\* dynamic otherwise.  The costs are in bytes, (bits + 3 + 7) >> 3.  The three
\* header bits are the last flag and then the type.
C9_BlockType ==
    pc = "reset" =>
        /\ Header = 2 * TypeFor(BestLen) + arg.last
        /\ OneBlock

\* a dynamic block of literals and matches, the last of the run
C9_Witness ==
    /\ pc = "reset" /\ arg.last = 1 /\ s.matches > 2
    /\ Header = 2 * DYN_TREES + 1
    /\ OneBlock

\* C9 as claimed, where trees were built (level > 0): best_len is the smaller
\* of the static and the dynamic cost whatever the strategy.
C9_CheapestOfBoth ==
    (pc = "reset" /\ s.level > 0) =>
        Header = 2 * TypeFor(Smaller(StaticCost, DynCost)) + arg.last

\* C10: when _tr_flush_block has returned, whatever block it wrote, Freq is 0
\* for every symbol of the three alphabets but END_BLOCK, which has 1,
\* opt_len = static_len = 0 and sym_next = matches = 0; and after a call with
\* last set no bit is left in bi_buf: bi_valid = 0.
C10_ResetAfterFlush ==
    pc = "flushed" =>
        /\ \A n \in 0..(L_CODES - 1) :
              s.dyn_ltree.fc[n + 1] = IF n = END_BLOCK THEN 1 ELSE 0
        /\ \A n \in 0..(D_CODES - 1) : s.dyn_dtree.fc[n + 1] = 0
        /\ \A n \in 0..(BL_CODES - 1) : s.bl_tree.fc[n + 1] = 0
        /\ s.opt_len = 0 /\ s.static_len = 0
        /\ s.sym_next = 0 /\ s.matches = 0
        /\ arg.last = 1 => (s.bi_valid = 0 /\ s.bi_buf = 0)

\* the last block, a dynamic one, followed one that left bits in bi_buf
C10_Witness ==
    /\ pc = "flushed" /\ arg.last = 1
    /\ ~arg.hasbuf /\ arg.opt_lenb < arg.static_lenb
    /\ arg.blocks = 2 /\ arg.mark % 8 # 0
    /\ s.bi_valid = 0 /\ s.dyn_ltree.fc[END_BLOCK + 1] = 1


\* the symbols that had a frequency when build_tree was entered, and those
\* that have a code length now
Elems == DescOf(arg.desc).stat_desc.elems
NonZero == {n \in 0..(Elems - 1) : arg.freq[n + 1] # 0}
Coded == {n \in 0..(Elems - 1) : Tree.dl[n + 1] # 0}
\* the nodes in heap[1..heap_len]
InHeap == {s.heap[i + 1] : i \in 1..s.heap_len}

\* C11: build_tree takes any frequencies.  With none or one of them non-zero
\* it adds leaves of frequency 1 until the heap has two leaves, and ends with
\* exactly two symbols of non-zero length, both of length 1, and
\* max_code >= 1; with two or more non-zero, every symbol of frequency 0 ends
\* with length 0.
C11_ForcedLeaves ==
    /\ (pc = "merge" /\ arg.node = Elems) =>
          /\ s.heap_len = (IF Cardinality(NonZero) < 2 THEN 2 ELSE Cardinality(NonZero))
          /\ Cardinality(InHeap) = s.heap_len
          /\ NonZero \subseteq InHeap
          /\ \A n \in InHeap \ NonZero : n < Elems /\ Tree.fc[n + 1] = 1
    /\ (pc = "built" /\ Cardinality(NonZero) < 2) =>
          /\ Cardinality(Coded) = 2
          /\ \A n \in Coded : Tree.dl[n + 1] = 1
          /\ arg.max_code >= 1 /\ s[arg.desc].max_code = arg.max_code
    /\ (pc = "built" /\ Cardinality(NonZero) >= 2) =>
          \A n \in 0..(Elems - 1) : arg.freq[n + 1] = 0 => Tree.dl[n + 1] = 0

\* a distance tree built from no frequency at all
C11_Witness ==
    /\ pc = "built" /\ arg.desc = "d_desc" /\ NonZero = {}
    /\ Coded = {0, 1} /\ arg.max_code = 1


\* the extra bits that follow the code of symbol n of the alphabet of arg.desc
ExtraBits(n) ==
    IF arg.desc = "l_desc"
    THEN (IF n > LITERALS THEN extra_lbits[n - LITERALS] ELSE 0)
    ELSE IF arg.desc = "d_desc" THEN extra_dbits[n + 1]
    ELSE extra_blbits[n + 1]

\* the sum over the symbols lo..hi of the frequency found on entry times the
\* length in dl plus the extra bits
RECURSIVE CostSum(_, _, _)
CostSum(dl, lo, hi) ==
    IF lo > hi THEN 0
    ELSE IF lo = hi THEN arg.freq[lo + 1] * (dl[lo + 1] + ExtraBits(lo))
    ELSE CostSum(dl, lo, (lo + hi) \div 2) + CostSum(dl, ((lo + hi) \div 2) + 1, hi)

\* C12: build_tree adds to opt_len exactly the sum, over the symbols whose
\* frequency was non-zero on entry, of Freq * (final Len + extra bits), and to
\* static_len the sum of Freq * (static Len + extra bits) when the alphabet
\* has a static tree (nothing otherwise); so also when lengths were repaired
\* and when leaves were forced.  opt_len and static_len are read as integers
\* equal to them modulo the width of ulg.
C12_CostAdded ==
    pc = "built" =>
        /\ s.opt_len - arg.opt_len = CostSum(Tree.dl, 0, Elems - 1)
        /\ s.static_len - arg.static_len =
              IF has_stree(DescOf(arg.desc))
              THEN CostSum(DescOf(arg.desc).stat_desc.static_tree.dl, 0, Elems - 1)
              ELSE 0

\* a distance tree with repaired lengths added to the cost of the literals
C12_Witness ==
    /\ pc = "built" /\ arg.desc = "d_desc" /\ arg.cut > 0 /\ arg.opt_len > 0
    /\ s.opt_len - arg.opt_len = CostSum(Tree.dl, 0, Elems - 1)
    /\ s.opt_len - arg.opt_len > 100


\* v with its len low bits in reverse order
RECURSIVE RevBits(_, _)
RevBits(v, len) ==
    IF len = 0 THEN 0 ELSE (v % 2) * (2 ^ (len - 1)) + RevBits(v \div 2, len - 1)

\* the number of symbols below n that have the length of n
Rank(dl, n) == Cardinality({m \in 0..(n - 1) : dl[m + 1] = dl[n + 1]})

\* C13: gen_codes gives canonical codes.  The first code of length L is
\* (first code of length L-1 + bl_count[L-1]) << 1, from 0; the k-th symbol
\* of length L in ascending index has the value first(L) + k; Code is that
\* value with its Len bits reversed; a symbol of Len 0 gets no code, its slot
\* is left as it was.
C13_CanonicalCodes ==
    pc = "built" =>
        \A n \in 0..arg.max_code :
            IF Tree.dl[n + 1] = 0
            THEN Tree.fc[n + 1] = arg.freq[n + 1]
            ELSE Tree.fc[n + 1] =
                    RevBits(CodeAfter(s.bl_count, Tree.dl[n + 1]) + Rank(Tree.dl, n),
                            Tree.dl[n + 1])

\* a literal tree with three symbols or more of one length, a symbol without
\* a code below them, and a code that is not its own reverse
C13_Witness ==
    /\ pc = "built" /\ arg.desc = "l_desc"
    /\ \E n \in Used : \E m \in 0..(n - 1) :
          /\ Rank(Tree.dl, n) >= 2 /\ Tree.dl[m + 1] = 0
          /\ Tree.fc[n + 1] # CodeAfter(s.bl_count, Tree.dl[n + 1]) + Rank(Tree.dl, n)
          /\ Tree.fc[n + 1] =
                RevBits(CodeAfter(s.bl_count, Tree.dl[n + 1]) + Rank(Tree.dl, n),
                        Tree.dl[n + 1])


\* C14: from _tr_init on, with sym_end a positive multiple of 3 and a caller
\* that flushes when _tr_tally returns true, each _tr_tally call adds one
\* triple (low byte of dist, high byte of dist, lc) to sym_buf, in call
\* order; it returns true exactly when it makes sym_next equal to sym_end;
\* and sym_next never exceeds sym_end.
C14_TallyAppends ==
    /\ s.sym_next <= s.sym_end
    /\ pc \in {"tally", "emit", "reset"} =>
          /\ s.sym_next = 3 * Len(sent)
          /\ \A i \in 1..Len(sent) :
                /\ s.sym_buf[3 * i - 2] = sent[i][1] % 256
                /\ s.sym_buf[3 * i - 1] = sent[i][1] \div 256
                /\ s.sym_buf[3 * i] = sent[i][2]
    /\ pc = "tally" => (arg.full <=> (s.sym_next = s.sym_end))

\* the call that fills sym_buf, after matches at distances of two bytes, in
\* a block that is not the first
C14_Witness ==
    /\ pc = "tally" /\ arg.full /\ arg.blocks > 0
    /\ s.sym_next = s.sym_end /\ Len(sent) = 5
    /\ \E i \in 1..Len(sent) : sent[i][1] > 255 /\ s.sym_buf[3 * i - 1] > 0


(***************************************************************************)
(* build_tree: the heap                                                    *)
(***************************************************************************)
\* node n comes no later than node m in the order (Freq, then depth)
Lower(n, m) ==
    \/ Tree.fc[n + 1] < Tree.fc[m + 1]
    \/ (Tree.fc[n + 1] = Tree.fc[m + 1] /\ s.depth[n + 1] <= s.depth[m + 1])

\* the two nodes the last turn of the loop took, and the node it made
TakenFirst == s.heap[s.heap_max + 2]
TakenSecond == s.heap[s.heap_max + 1]
Made == arg.node - 1

Merging == pc \in {"merge", "bitlen"}

\* C16: while build_tree merges, heap[1..heap_len] is a min-heap in the order
\* (Freq, then depth), so the two nodes a turn takes are the two lowest of the
\* heap; the node made has the sum of their Freq and one more than the larger
\* of their depths and is put back in the heap; the loop ends with one node,
\* the root; heap_len stays >= 1 and heap[1..heap_len] stays below
\* heap[heap_max..HEAP_SIZE-1].
C16_HeapOrder ==
    Merging =>
        /\ \A i \in 2..s.heap_len : Lower(s.heap[(i \div 2) + 1], s.heap[i + 1])
        /\ s.heap_len >= 1
        /\ s.heap_len < s.heap_max
        /\ pc = "merge" => s.heap_len >= 2
        /\ pc = "bitlen" => (s.heap_len = 1 /\ s.heap[SMALLEST + 1] = Made)
        /\ arg.node > Elems =>
              /\ Lower(TakenFirst, TakenSecond)
              /\ \A x \in InHeap \ {Made} : Lower(TakenSecond, x)
              /\ Made \in InHeap
              /\ Tree.fc[Made + 1] = Tree.fc[TakenFirst + 1] + Tree.fc[TakenSecond + 1]
              /\ s.depth[Made + 1] =
                     (IF s.depth[TakenFirst + 1] >= s.depth[TakenSecond + 1]
                      THEN s.depth[TakenFirst + 1] ELSE s.depth[TakenSecond + 1]) + 1
              /\ Tree.dl[TakenFirst + 1] = Made /\ Tree.dl[TakenSecond + 1] = Made

\* a turn that took a node made earlier, the second of the two being ahead
\* of a node of the same Freq by its depth alone
C16_Witness ==
    /\ pc = "merge" /\ arg.node > Elems
    /\ (TakenFirst >= Elems \/ TakenSecond >= Elems)
    /\ s.heap_len >= 3
    /\ \E x \in InHeap \ {Made} :
          /\ Tree.fc[x + 1] = Tree.fc[TakenSecond + 1]
          /\ s.depth[x + 1] > s.depth[TakenSecond + 1]
    /\ Lower(TakenFirst, TakenSecond)
    /\ Tree.fc[Made + 1] = Tree.fc[TakenFirst + 1] + Tree.fc[TakenSecond + 1]


(***************************************************************************)
(* gen_bitlen: the repair of the counts                                    *)
(***************************************************************************)
MaxLength == DescOf(arg.desc).stat_desc.max_length

\* the symbols that are leaves of the tree
Leaves == {n \in 0..arg.max_code : Tree.fc[n + 1] # 0}

RECURSIVE BlSum(_, _)
BlSum(bl_count, bits) ==
    IF bits < 0 THEN 0 ELSE bl_count[bits + 1] + BlSum(bl_count, bits - 1)

\* the lengths below max_length that have a code
Lendable == {b \in 1..(MaxLength - 1) : s.bl_count[b + 1] # 0}
Highest == CHOOSE b \in Lendable : \A c \in Lendable : c <= b

\* the counts after one code of length b and one of length max_length have
\* become two codes of length b + 1
Moved(bl_count, b) ==
    [i \in DOMAIN bl_count |->
        bl_count[i] + (IF i = b + 2 THEN 2 ELSE 0) - (IF i = b + 1 THEN 1 ELSE 0)
                    - (IF i = MaxLength + 1 THEN 1 ELSE 0)]

C17_Counts ==
    /\ pc = "repair" =>
          /\ arg.cut % 2 = 0 /\ arg.overflow % 2 = 0 /\ arg.overflow > 0
          /\ Lendable # {}
    /\ pc = "assign" => arg.overflow = 0
    /\ pc \in {"repair", "assign"} =>
          /\ \A b \in 0..MAX_BITS : s.bl_count[b + 1] \in 0..Cardinality(Leaves)
          /\ BlSum(s.bl_count, MAX_BITS) = Cardinality(Leaves)

C17_Turn ==
    pc = "repair" =>
        /\ s'.bl_count = Moved(s.bl_count, Highest)
        /\ arg'.overflow = arg.overflow - 2

\* C17: gen_bitlen enters its repair loop with an even overflow; every turn
\* finds a length from 1 to max_length - 1 with a non-zero count, the
\* highest one, takes one code from it and one from max_length and adds two
\* one length up, and takes 2 off overflow; the loop ends with overflow = 0;
\* no count goes below zero and the sum of the counts stays the number of
\* leaves.
C17_RepairLoop == []C17_Counts /\ [][C17_Turn]_vars

\* between two turns of the loop, the next one having to go down past empty
\* lengths to find a code
C17_Witness ==
    /\ pc = "repair"
    /\ arg.overflow > 0 /\ arg.overflow < arg.cut
    /\ Highest < MaxLength - 2
    /\ BlSum(s.bl_count, MAX_BITS) = Cardinality(Leaves)


(***************************************************************************)
(* The two uses of a slot of a tree: Freq then Code, Dad then Len          *)
(***************************************************************************)
\* how often the calls kept in sent counted node n of the literal tree, and
\* distance code d
LitCount(n) ==
    Cardinality({i \in 1..Len(sent) :
                    IF sent[i][1] = 0 THEN sent[i][2] = n
                    ELSE _length_code[sent[i][2] + 1] + LITERALS + 1 = n})
    + (IF n = END_BLOCK THEN 1 ELSE 0)
DistCount(d) ==
    Cardinality({i \in 1..Len(sent) : sent[i][1] # 0 /\ d_code(sent[i][1] - 1) = d})

\* between init_block and build_tree the slots hold Freq
HoldsFreq ==
    /\ \A n \in 0..(L_CODES - 1) : s.dyn_ltree.fc[n + 1] = LitCount(n)
    /\ \A d \in 0..(D_CODES - 1) : s.dyn_dtree.fc[d + 1] = DistCount(d)
    /\ \A b \in 0..(BL_CODES - 1) : s.bl_tree.fc[b + 1] = 0

\* the counts of the lengths of a tree up to max_code, as bl_count has them
LenCounts(dl, max_code) ==
    [b \in 1..(MAX_BITS + 1) |->
        IF b = 1 THEN 0 ELSE Cardinality({n \in 0..max_code : dl[n + 1] = b - 1})]

\* after gen_codes the slots of the symbols with a length hold Code
CodesOf(tree, max_code, counts) ==
    \A n \in 0..max_code :
        tree.dl[n + 1] # 0 =>
            tree.fc[n + 1] = RevBits(CodeAfter(counts, tree.dl[n + 1]) + Rank(tree.dl, n),
                                     tree.dl[n + 1])
HoldsCode(tree, max_code) == CodesOf(tree, max_code, LenCounts(tree.dl, max_code))

\* the nodes of a tree stand in heap[heap_max..HEAP_SIZE-1] with every node
\* after its parent, the root first
ParentsFirst(heap, heap_max, dad) ==
    \A h \in (heap_max + 1)..(HEAP_SIZE - 1) :
        \E g \in heap_max..(h - 1) : heap[g + 1] = dad[heap[h + 1] + 1]

\* every node got the length of its parent plus one, cut to max_length
LengthsFollow(heap, heap_max, dad, len, max_length) ==
    /\ len[heap[heap_max + 1] + 1] = 0
    /\ \A h \in (heap_max + 1)..(HEAP_SIZE - 1) :
          len[heap[h + 1] + 1] =
              IF len[dad[heap[h + 1] + 1] + 1] + 1 > max_length THEN max_length
              ELSE len[dad[heap[h + 1] + 1] + 1] + 1

DadThenLen(bt, after, desc) ==
    /\ ParentsFirst(bt.s.heap, bt.s.heap_max, bt.s[desc.dyn_tree].dl)
    /\ LengthsFollow(bt.s.heap, bt.s.heap_max, bt.s[desc.dyn_tree].dl,
                     after.s[desc.dyn_tree].dl, desc.stat_desc.max_length)

\* build_tree on the counts of the state, stopped as gen_bitlen is called,
\* and then the first loop of gen_bitlen
TreeGrown(st, desc) ==
    build_tree_root(build_tree_merge_all(build_tree_heap(st, desc), desc))
DadRead(bt, desc) == DadThenLen(bt, gen_bitlen_lengths(bt, desc), desc)

\* C18: through any calls of _tr_init, _tr_tally and _tr_flush_block the
\* slots of a dynamic tree hold Freq from init_block until gen_codes (what
\* _tr_tally counted, and nothing else), and Code from gen_codes until the
\* next init_block, which is when send_code reads them; gen_bitlen reads the
\* Dad of a node before it writes its Len, and when it comes to a node the
\* parent already has its length.
C18_PhasesApart ==
    /\ pc \in {"tally", "flushed"} => HoldsFreq
    /\ (pc \in {"emit", "reset"} /\ s.level > 0) =>
          /\ HoldsCode(s.dyn_ltree, s.l_desc.max_code)
          /\ HoldsCode(s.dyn_dtree, s.d_desc.max_code)
          /\ HoldsCode(s.bl_tree, s.bl_desc.max_code)
    /\ (pc = "tally" /\ s.level > 0) =>
          /\ DadRead(TreeGrown(s, l_desc), l_desc)
          /\ DadRead(TreeGrown(s, d_desc), d_desc)

\* the second block about to be written: a slot that counted to 2 or more
\* since init_block now holds a code that is another number
C18_Witness ==
    /\ pc = "emit" /\ s.level > 0 /\ arg.blocks = 1
    /\ \E n \in 0..(LITERALS - 1) :
          /\ LitCount(n) >= 2
          /\ s.dyn_ltree.dl[n + 1] # 0
          /\ s.dyn_ltree.fc[n + 1] # LitCount(n)
    /\ HoldsCode(s.dyn_ltree, s.l_desc.max_code)


(***************************************************************************)
(* The bits of a block against the estimate                                *)
(***************************************************************************)
\* the n bits written from bit at on, as a number, the first bit the lowest
RECURSIVE BitsAt(_, _)
BitsAt(at, n) == IF n = 0 THEN 0 ELSE BitAt(s, at) + 2 * BitsAt(at + 1, n - 1)

\* the bit-length symbol whose code stands at bit at
SymbolAt(at) ==
    CHOOSE b \in 0..(BL_CODES - 1) :
        /\ s.bl_tree.dl[b + 1] # 0
        /\ BitsAt(at, s.bl_tree.dl[b + 1]) = s.bl_tree.fc[b + 1]

\* the lengths a bit-length symbol stands for, given the bits after its code
RunOf(b, at) ==
    IF b = REP_3_6 THEN 3 + BitsAt(at, 2)
    ELSE IF b = REPZ_3_10 THEN 3 + BitsAt(at, 3)
    ELSE IF b = REPZ_11_138 THEN 11 + BitsAt(at, 7)
    ELSE 1

\* The bit-length symbols read from bit at on until they stand for left
\* lengths: how often each was read, and where the reading ended.
RECURSIVE ReadLengths(_, _, _, _)
ReadLengths(at, left, seen, b) ==
    IF left <= 0 THEN [at |-> at, left |-> left, seen |-> seen]
    ELSE ReadLengths(at + s.bl_tree.dl[b + 1] + extra_blbits[b + 1],
                     left - RunOf(b, at + s.bl_tree.dl[b + 1]),
                     [seen EXCEPT ![b + 1] = @ + 1],
                     IF left - RunOf(b, at + s.bl_tree.dl[b + 1]) <= 0 THEN 0
                     ELSE SymbolAt(at + s.bl_tree.dl[b + 1] + extra_blbits[b + 1]))

\* where send_all_trees has written its counts and the lengths of the
\* bit-length codes, and the two trees begin
TreesAt == arg.mark + 3 + 5 + 5 + 4 + 3 * (arg.max_blindex + 1)

Read ==
    ReadLengths(TreesAt, (s.l_desc.max_code + 1) + (s.d_desc.max_code + 1),
                [b \in 1..BL_CODES |-> 0], SymbolAt(TreesAt))

\* what scan_tree counts on the two trees, from bl_tree at zero
Scanned ==
    scan_tree(scan_tree([s EXCEPT !.bl_tree.fc = [i \in DOMAIN @ |-> 0]],
                        "dyn_ltree", s.l_desc.max_code),
              "dyn_dtree", s.d_desc.max_code).bl_tree.fc

\* the bits of the symbols of the block with the dynamic trees: every
\* literal or length and distance that was counted, and END_BLOCK
RECURSIVE SymbolBits(_, _, _, _, _)
SymbolBits(count, dl, extra, lo, hi) ==
    IF lo > hi THEN 0
    ELSE IF lo = hi THEN count[lo + 1] * (dl[lo + 1] + extra[lo + 1])
    ELSE SymbolBits(count, dl, extra, lo, (lo + hi) \div 2)
         + SymbolBits(count, dl, extra, ((lo + hi) \div 2) + 1, hi)

LitExtra == [n \in 1..L_CODES |-> IF n > LITERALS + 1 THEN extra_lbits[n - LITERALS - 1] ELSE 0]

DynamicHeader ==
    /\ BitsAt(arg.mark + 3, 5) = s.l_desc.max_code + 1 - 257
    /\ BitsAt(arg.mark + 8, 5) = s.d_desc.max_code + 1 - 1
    /\ BitsAt(arg.mark + 13, 4) = arg.max_blindex + 1 - 4
    /\ \A rank \in 0..arg.max_blindex :
          BitsAt(arg.mark + 17 + 3 * rank, 3) = s.bl_tree.dl[bl_order[rank + 1] + 1]

DynamicExact(read) ==
    /\ read.left = 0
    /\ \A b \in 0..(BL_CODES - 1) : read.seen[b + 1] = Scanned[b + 1]
    /\ BitCount(s) - read.at =
          SymbolBits([n \in 1..L_CODES |-> LitCount(n - 1)], s.dyn_ltree.dl, LitExtra,
                     0, L_CODES - 1)
          + SymbolBits([d \in 1..D_CODES |-> DistCount(d - 1)], s.dyn_dtree.dl, extra_dbits,
                       0, D_CODES - 1)

\* C19: a dynamic block is 3 + opt_len bits and a static block 3 +
\* static_len bits.  In a dynamic block the 3 * (max_blindex + 1) + 14 bits
\* after the header are the counts of send_all_trees and the lengths of the
\* bit-length codes; the bit-length symbols that follow are, symbol by
\* symbol, as many as scan_tree counts on the two trees; the rest is the
\* codes and extra bits of the symbols and END_BLOCK.
C19_EstimateExact ==
    pc = "reset" =>
        /\ Header \div 2 = STATIC_TREES => BitCount(s) = arg.mark + 3 + s.static_len
        /\ Header \div 2 = DYN_TREES =>
              /\ BitCount(s) = arg.mark + 3 + s.opt_len
              /\ DynamicHeader
              /\ DynamicExact(Read)

\* a dynamic block with matches whose trees are written with a repeat of a
\* length that is not zero and with both repeats of zero
C19_Witness ==
    /\ pc = "reset" /\ Header \div 2 = DYN_TREES /\ s.matches > 0
    /\ BitCount(s) = arg.mark + 3 + s.opt_len
    /\ Read.left = 0
    /\ Read.seen[REPZ_3_10 + 1] > 0 /\ Read.seen[REPZ_11_138 + 1] > 0
    /\ Read.seen[REP_3_6 + 1] > 0


(***************************************************************************)
(* The bit writer under all the calls that write bits                      *)
(***************************************************************************)
MaxOps == 4            \* calls in one run

\* The state after _tr_init on memory filled with 0xff; arg keeps the last
\* call made and the number of calls.
AccumInit ==
    /\ CrcIdle
    /\ s = _tr_init(deflate_state(255, 6, 0, 0))
    /\ pc = "accum"
    /\ arg = [op |-> "init", n |-> 0]
    /\ sent = <<>>

\* send_bits(s, value, length), value fitting in length bits
AccumSend ==
    /\ pc = "accum" /\ arg.n < MaxOps
    /\ \E value \in BitValues, length \in BitLengths :
          /\ value < 2 ^ length
          /\ s' = send_bits(s, value, length)
    /\ arg' = [op |-> "send", n |-> arg.n + 1]
    /\ UNCHANGED <<pc, sent, crcvars>>

\* _tr_flush_bits(s), which is bi_flush(s)
AccumFlush ==
    /\ pc = "accum" /\ arg.n < MaxOps
    /\ s' = _tr_flush_bits(s)
    /\ arg' = [op |-> "flush", n |-> arg.n + 1]
    /\ UNCHANGED <<pc, sent, crcvars>>

\* bi_windup(s)
AccumWindup ==
    /\ pc = "accum" /\ arg.n < MaxOps
    /\ s' = bi_windup(s)
    /\ arg' = [op |-> "windup", n |-> arg.n + 1]
    /\ UNCHANGED <<pc, sent, crcvars>>

\* _tr_align(s)
AccumAlign ==
    /\ pc = "accum" /\ arg.n < MaxOps
    /\ s' = _tr_align(s)
    /\ arg' = [op |-> "align", n |-> arg.n + 1]
    /\ UNCHANGED <<pc, sent, crcvars>>

\* _tr_stored_block(s, buf, stored_len, last)
AccumStored ==
    /\ pc = "accum" /\ arg.n < MaxOps
    /\ \E stored_len \in {0, 3}, last \in {0, 1} :
          s' = _tr_stored_block(s, BlockBuf(TRUE, stored_len), stored_len, last)
    /\ arg' = [op |-> "stored", n |-> arg.n + 1]
    /\ UNCHANGED <<pc, sent, crcvars>>

AccumNext == AccumSend \/ AccumFlush \/ AccumWindup \/ AccumAlign \/ AccumStored
SpecAccum == AccumInit /\ [][AccumNext]_vars

\* what _tr_align sends: the header of a static block that is not the last,
\* then the seven bits of the static code of END_BLOCK
AlignBits == <<0, 1, 0>> \o <<0, 0, 0, 0, 0, 0, 0>>

C21_Valid ==
    pc = "accum" =>
        /\ s.bi_valid \in 0..16
        /\ s.bi_buf \in 0..(2 ^ s.bi_valid - 1)
        /\ arg.op \in {"flush", "align"} => s.bi_valid <= 7
        /\ arg.op \in {"windup", "stored"} => s.bi_valid = 0

C21_Kept ==
    pc = "accum" =>
        /\ arg'.op = "flush" => Stream(s') = Stream(s)
        /\ arg'.op = "align" => Stream(s') = Stream(s) \o AlignBits

\* C21: from _tr_init on, after any calls of send_bits (1 <= length <= 16,
\* value < 2^length), bi_flush, bi_windup, _tr_align and _tr_stored_block,
\* 0 <= bi_valid <= 16 and bi_buf has no bit at bi_valid or above; after
\* bi_flush (and _tr_align, which ends with it) bi_valid <= 7 and the bits
\* written so far are the same bits in the same order; after bi_windup or
\* _tr_stored_block bi_valid = 0.
C21_Accumulator == []C21_Valid /\ [][C21_Kept]_vars

\* bi_flush has put a byte and left bits of the next one in bi_buf
C21_Witness ==
    /\ pc = "accum" /\ arg.op = "flush" /\ arg.n = MaxOps
    /\ s.bi_valid \in 1..7 /\ s.bi_buf > 0 /\ s.bi_buf < 2 ^ s.bi_valid
    /\ s.pending >= 6

(***************************************************************************)
(* crc32_combine: the calls return                                         *)
(***************************************************************************)
MaxTurns == 63         \* turns of x2nmodp's loop in one call: the bits of a z_off64_t

\* lengths of one bit to 31 bits, k & 31 wrapping at the longest
Lens2 == {0, 1, 2, 3, 255, 256, 65535, 65536, 2 ^ 28 + 5, 2 ^ 29, 2 ^ 30 + 1, 2147483647}
Crcs1 == {Zero32, CheckCrc, Ones32}
Crcs2 == {Zero32, CheckCrc}

\* crc32_combine_gen64(len2) is entered: x2nmodp(len2, 3) with p = 1 << 31.
\* ret keeps the arguments, the locals of x2nmodp and what the calls return.
CombineInit ==
    /\ host = [W |-> 0, little |-> TRUE]
    /\ crc \in Crcs1
    /\ buf = Z_NULL /\ buf2 = <<>>
    /\ \E len2 \in Lens2, crc2 \in Crcs2 :
          ret = [len2 |-> len2, crc2 |-> crc2,
                 n |-> len2, k |-> 3, p |-> <<0, 0, 0, 128>>, turns |-> 0,
                 op |-> Unset, byop |-> Unset, comb |-> Unset]
    /\ cpc = "x2n"
    /\ s = <<>> /\ pc = "none" /\ arg = <<>> /\ sent = <<>>

\* x2nmodp, one turn of while (n); the call hangs if multmodp does not return
X2nTurn ==
    /\ cpc = "x2n"
    /\ ret.n # 0 /\ ret.turns < MaxTurns
    /\ \E xs \in {x2nmodp_turn([n |-> ret.n, k |-> ret.k, p |-> ret.p])} :
          /\ ret' = [ret EXCEPT !.n = xs.n, !.k = xs.k, !.p = xs.p, !.turns = @ + 1]
          /\ cpc' = IF xs.p = NoReturn THEN "hung" ELSE "x2n"
    /\ UNCHANGED <<host, crc, buf, buf2, trvars>>

\* x2nmodp returns p and crc32_combine_gen64 returns it as op
GenReturn ==
    /\ cpc = "x2n"
    /\ ret.n = 0
    /\ ret' = [ret EXCEPT !.op = ret.p]
    /\ cpc' = "op"
    /\ UNCHANGED <<host, crc, buf, buf2, trvars>>

\* crc32_combine_op(crc1, crc2, op)
CallCombineOp ==
    /\ cpc = "op"
    /\ \E r \in {crc32_combine_op(crc, ret.crc2, ret.op)} :
          /\ ret' = [ret EXCEPT !.byop = r]
          /\ cpc' = IF r = NoReturn THEN "hung" ELSE "comb"
    /\ UNCHANGED <<host, crc, buf, buf2, trvars>>

\* crc32_combine64(crc1, crc2, len2)
CallCombine64 ==
    /\ cpc = "comb"
    /\ \E r \in {crc32_combine64(crc, ret.crc2, ret.len2)} :
          /\ ret' = [ret EXCEPT !.comb = r]
          /\ cpc' = IF r = NoReturn THEN "hung" ELSE "returned"
    /\ UNCHANGED <<host, crc, buf, buf2, trvars>>

CombineNext == X2nTurn \/ GenReturn \/ CallCombineOp \/ CallCombine64
SpecCombine == CombineInit /\ [][CombineNext]_vars

Running == cpc \in {"x2n", "op", "comb"}

\* While a call has not returned the code runs on: weak fairness of
\* CombineNext, with ENABLED <<CombineNext>>_vars written as Running (a step
\* changes turns, op, byop or comb, and C22_Returns has a step open in every
\* Running state).
SpecCombineFair == SpecCombine /\ ([]<>~Running \/ []<><<CombineNext>>_vars)

\* the number of bits of n
RECURSIVE BitLen(_)
BitLen(n) == IF n = 0 THEN 0 ELSE 1 + BitLen(n \div 2)

InCombine == cpc \in {"x2n", "op", "comb", "returned", "hung"}

\* the steps still to make: the turns of x2nmodp's loop, then the three returns
StepsLeft ==
    IF cpc = "x2n" THEN BitLen(ret.n) + 3
    ELSE IF cpc = "op" THEN 2
    ELSE IF cpc = "comb" THEN 1
    ELSE 0

C22_Returns ==
    InCombine =>
        /\ cpc # "hung"
        /\ cpc = "x2n" => (ret.n = 0 \/ ret.turns < MaxTurns)
        /\ \A i \in 1..32 : x2n_table[i] # Zero32
        /\ ret.p # Zero32 /\ ret.p # NoReturn
        /\ ret.turns + BitLen(ret.n) = BitLen(ret.len2)
        /\ cpc \in {"op", "comb", "returned"} =>
              /\ ret.op = crc32_combine_gen64(ret.len2)
              /\ ret.op # Zero32
        /\ cpc = "returned" => (ret.comb # NoReturn /\ ret.byop = ret.comb)

C22_Turn == InCombine => StepsLeft' < StepsLeft

\* C22: crc32_combine64(crc1, crc2, len2) and crc32_combine_gen64(len2)
\* return for every crc1, crc2 and len2 >= 0: the loop of x2nmodp makes one
\* turn for each bit of len2, its p is never zero and no entry of x2n_table
\* is, so multmodp always gets a first operand that is not zero and reaches
\* its break; crc32_combine_op with the op of crc32_combine_gen returns too,
\* and returns what crc32_combine returns.
C22_CombineReturns ==
    /\ []C22_Returns
    /\ [][C22_Turn]_vars
    /\ <>(InCombine => cpc = "returned")

\* all three calls have returned for a length of 31 bits and crc1 = 0, the
\* loop of x2nmodp having run k past 31
C22_Witness ==
    /\ cpc = "returned"
    /\ ret.len2 = 2147483647 /\ crc = Zero32
    /\ ret.turns = 31 /\ ret.k = 34
    /\ ret.byop = ret.comb /\ ret.comb = ret.crc2
====
